---- MODULE Spec2Model ----
(***************************************************************************)
(* Bank-statement import of the accounting portal: POST                    *)
(* /api/importar-extrato with its format detector, CSV and OFX parsers,    *)
(* normalizers and classifiers.                                            *)
(*                                                                         *)
(* Text is modelled as sequences of UTF-16 code units (naturals), buffers  *)
(* as sequences of bytes 0..255.  Numbers are exact decimals               *)
(* mant / 10^scale with a sign bit, or NaN.                                *)
(***************************************************************************)
EXTENDS Integers, Sequences, FiniteSets, TLC

VARIABLES
    req,    \* per in-flight HTTP request: position in POST and its locals
    unit,   \* a single call of one pure helper: its argument and its result
    db,     \* the database: cash entries and users
    web,    \* the request the server is on: the middleware's verdict, the response
    pool,   \* lib/prisma: the module's client and every client created
    calls,  \* per call of prismaWithRetry: its position, clients and attempts
    resets  \* per run of a server action of the login pages: position and locals

vars == <<req, unit, db, web, pool, calls, resets>>

---------------------------------------------------------------------------
(* Bounds of the explored inputs *)

MaxAmountLen == 4       \* longest generated amount string
MaxWords == 2           \* words per generated description
MaxRows == 2            \* data rows / transaction blocks per generated file
MaxParts == 3           \* dash-separated parts per generated description
MaxRequests == 2        \* requests the portal serves one after the other

---------------------------------------------------------------------------
(* Characters *)

Ascii ==
    << " ", "!", "\"", "#", "$", "%", "&", "'", "(", ")", "*", "+", ",", "-",
       ".", "/", "0", "1", "2", "3", "4", "5", "6", "7", "8", "9", ":", ";",
       "<", "=", ">", "?", "@", "A", "B", "C", "D", "E", "F", "G", "H", "I",
       "J", "K", "L", "M", "N", "O", "P", "Q", "R", "S", "T", "U", "V", "W",
       "X", "Y", "Z", "[", "\\", "]", "^", "_", "(grave)", "a", "b", "c", "d", "e",
       "f", "g", "h", "i", "j", "k", "l", "m", "n", "o", "p", "q", "r", "s",
       "t", "u", "v", "w", "x", "y", "z", "{", "|", "}", "~" >>

\* (code 96, the grave accent, has no literal here and is never written)
Glyphs == {Ascii[i] : i \in 1..Len(Ascii)} \cup {"\t", "\n", "\r"}

\* code unit of a one-character literal
Ord ==
    [g \in Glyphs |->
        CASE g = "\t" -> 9
          [] g = "\n" -> 10
          [] g = "\r" -> 13
          [] OTHER -> 31 + (CHOOSE i \in 1..Len(Ascii) : Ascii[i] = g)]

\* the text of a literal written glyph by glyph
S(lit) == [i \in 1..Len(lit) |-> Ord[lit[i]]]

COMMA == 44
DOT == 46
MINUS == 45
PLUS == 43
SLASH == 47
LT == 60
SPACE == 32
LF == 10
CR == 13

IsDigit(c) == c \in 48..57

\* \s of a regular expression, and what trim() removes
IsSpace(c) ==
    c \in {9, 10, 11, 12, 13, 32, 160, 5760, 8232, 8233, 8239, 8287, 12288, 65279}
        \cup (8192..8202)

\* String.prototype.toLowerCase, per code unit (ASCII and Latin-1 letters)
LowerChar(c) ==
    IF c \in 65..90 \/ (c \in 192..222 /\ c # 215) THEN c + 32 ELSE c

\* String.prototype.toUpperCase, per code unit (ASCII and Latin-1 letters
\* whose upper case is one Latin-1 code unit)
UpperChar(c) ==
    IF c \in 97..122 \/ (c \in 224..254 /\ c # 247) THEN c - 32 ELSE c

toLowerCase(s) == [i \in 1..Len(s) |-> LowerChar(s[i])]
toUpperCase(s) == [i \in 1..Len(s) |-> UpperChar(s[i])]

---------------------------------------------------------------------------
(* String primitives *)

Slice(s, from, to) ==     \* s.slice(from, to) with 0-based bounds
    LET a == IF from < 0 THEN 0 ELSE IF from > Len(s) THEN Len(s) ELSE from
        b == IF to > Len(s) THEN Len(s) ELSE to
    IN  IF b <= a THEN <<>> ELSE [i \in 1..(b - a) |-> s[a + i]]

SliceFrom(s, from) == Slice(s, from, Len(s))

\* does s hold sub at 0-based position p
MatchAt(s, sub, p) ==
    /\ p >= 0
    /\ p + Len(sub) <= Len(s)
    /\ \A k \in 1..Len(sub) : s[p + k] = sub[k]

\* case-insensitive variant (the "i" flag), sub given in lower case
MatchAtI(s, sub, p) ==
    /\ p >= 0
    /\ p + Len(sub) <= Len(s)
    /\ \A k \in 1..Len(sub) : LowerChar(s[p + k]) = sub[k]

\* the positions (1-based, ascending) of s that satisfy a test given as the
\* sequence of its truth values
Where(flags) ==
    SelectSeq([i \in 1..Len(flags) |-> IF flags[i] THEN i ELSE 0], LAMBDA x : x # 0)

IndexOfFrom(s, sub, p) ==     \* s.indexOf(sub, p), -1 when absent
    LET hits == Where([i \in 1..Len(s) |-> i - 1 >= p /\ MatchAt(s, sub, i - 1)])
    IN  IF hits = <<>> THEN -1 ELSE hits[1] - 1

IndexOfFromI(s, sub, p) ==    \* the same, letter case ignored
    LET hits == Where([i \in 1..Len(s) |-> i - 1 >= p /\ MatchAtI(s, sub, i - 1)])
    IN  IF hits = <<>> THEN -1 ELSE hits[1] - 1

includes(s, sub) == IndexOfFrom(s, sub, 0) # -1

HasChar(s, c) == \E i \in 1..Len(s) : s[i] = c

lastIndexOf(s, c) ==      \* s.lastIndexOf(c) for a one-character c
    LET hits == Where([i \in 1..Len(s) |-> s[i] = c])
    IN  IF hits = <<>> THEN -1 ELSE hits[Len(hits)] - 1

indexOfChar(s, c) ==
    LET hits == Where([i \in 1..Len(s) |-> s[i] = c])
    IN  IF hits = <<>> THEN -1 ELSE hits[1] - 1

startsWith(s, prefix) == MatchAt(s, prefix, 0)

\* s.replace(/c/g, ""): every occurrence of one character removed
RemoveChar(s, c) == SelectSeq(s, LAMBDA x : x # c)

\* s.replace(/\s/g, "")
RemoveSpaces(s) == SelectSeq(s, LAMBDA x : ~IsSpace(x))

\* s.replace(c, d): the first occurrence only
ReplaceFirst(s, c, d) ==
    LET p == indexOfChar(s, c)
    IN  IF p = -1 THEN s ELSE [s EXCEPT ![p + 1] = d]

trimStart(s) ==
    LET solid == Where([i \in 1..Len(s) |-> ~IsSpace(s[i])])
    IN  IF solid = <<>> THEN <<>> ELSE SliceFrom(s, solid[1] - 1)

trimEnd(s) ==
    LET solid == Where([i \in 1..Len(s) |-> ~IsSpace(s[i])])
    IN  IF solid = <<>> THEN <<>> ELSE Slice(s, 0, solid[Len(solid)])

trim(s) == trimEnd(trimStart(s))

\* the pieces of s between the separators that start at the (ascending,
\* non-overlapping) positions seps and are widths[k] long
Pieces(s, seps, widths) ==
    [k \in 1..(Len(seps) + 1) |->
        Slice(s,
              IF k = 1 THEN 0 ELSE seps[k - 1] - 1 + widths[k - 1],
              IF k <= Len(seps) THEN seps[k] - 1 ELSE Len(s))]

\* s.split(c) for a one-character separator: always at least one piece
split(s, c) ==
    LET seps == Where([i \in 1..Len(s) |-> s[i] = c])
    IN  Pieces(s, seps, [k \in 1..Len(seps) |-> 1])

\* s.split(sep) for a separator of several characters
RECURSIVE SplitOnFrom(_, _, _)
SplitOnFrom(s, sep, from) ==
    LET p == IndexOfFrom(s, sep, from)
    IN  IF p = -1 THEN <<SliceFrom(s, from)>>
        ELSE <<Slice(s, from, p)>> \o SplitOnFrom(s, sep, p + Len(sep))

splitOn(s, sep) == SplitOnFrom(s, sep, 0)

\* s.split(/\r?\n/): at every line feed, together with the carriage return
\* right before it
splitLines(s) ==
    LET feeds == Where([i \in 1..Len(s) |-> s[i] = LF])
        withCr == [k \in 1..Len(feeds) |->
                      /\ feeds[k] > 1
                      /\ s[feeds[k] - 1] = CR]
        seps == [k \in 1..Len(feeds) |-> IF withCr[k] THEN feeds[k] - 1 ELSE feeds[k]]
    IN  Pieces(s, seps, [k \in 1..Len(feeds) |-> IF withCr[k] THEN 2 ELSE 1])

\* array.map(f) for the element-wise string functions used
MapTrim(a) == [i \in 1..Len(a) |-> trim(a[i])]

---------------------------------------------------------------------------
(* Decoding of buffers *)

REPLACEMENT == 65533        \* U+FFFD
BOM == 65279                \* U+FEFF

\* bytes 0x80..0x9F of the "latin1" label (windows-1252)
Windows1252High ==
    << 8364, 129, 8218, 402, 8222, 8230, 8224, 8225, 710, 8240, 352, 8249, 338,
       141, 381, 143, 144, 8216, 8217, 8220, 8221, 8226, 8211, 8212, 732, 8482,
       353, 8250, 339, 157, 382, 376 >>

decodeLatin1(buffer) ==
    [i \in 1..Len(buffer) |->
        IF buffer[i] \in 128..159 THEN Windows1252High[buffer[i] - 127] ELSE buffer[i]]

\* code units of a code point
CodeUnits(cp) ==
    IF cp < 65536 THEN <<cp>>
    ELSE <<55296 + ((cp - 65536) \div 1024), 56320 + ((cp - 65536) % 1024)>>

\* the sequences a[1] \o a[2] \o ... of a sequence of sequences of at most
\* two elements
Flatten2(a) ==
    SelectSeq([k \in 1..(2 * Len(a)) |->
                  LET e == a[(k + 1) \div 2]
                      j == 2 - (k % 2)
                  IN  IF j <= Len(e) THEN e[j] ELSE -1],
              LAMBDA x : x # -1)

\* UTF-8: bytes a lead byte announces (0: no lead byte), and the range its
\* first continuation byte must lie in
Utf8Length(b) ==
    CASE b <= 127 -> 1
      [] b \in 194..223 -> 2
      [] b \in 224..239 -> 3
      [] b \in 240..244 -> 4
      [] OTHER -> 0

Utf8SecondLow(b) == IF b = 224 THEN 160 ELSE IF b = 240 THEN 144 ELSE 128
Utf8SecondHigh(b) == IF b = 237 THEN 159 ELSE IF b = 244 THEN 143 ELSE 191

\* is the byte k places after the lead byte at p the continuation it expects
Utf8Continues(b, p, k) ==
    /\ p + k <= Len(b)
    /\ IF k = 1 THEN b[p + 1] \in Utf8SecondLow(b[p])..Utf8SecondHigh(b[p])
       ELSE b[p + k] \in 128..191

\* bytes the decoder consumes for the lead byte at p: the longest prefix of a
\* well-formed sequence
Utf8Taken(b, p) ==
    LET n == Utf8Length(b[p])
    IN  IF n >= 2 /\ Utf8Continues(b, p, 1)
        THEN IF n >= 3 /\ Utf8Continues(b, p, 2)
             THEN IF n >= 4 /\ Utf8Continues(b, p, 3) THEN 4 ELSE 3
             ELSE 2
        ELSE 1

\* what decoding emits at byte i: nothing for a byte consumed with an earlier
\* lead byte, the character of a complete sequence, U+FFFD otherwise
Utf8At(b, i) ==
    LET n == Utf8Length(b[i])
        consumed == \E p \in {i - 3, i - 2, i - 1} :
                        p >= 1 /\ Utf8Length(b[p]) >= 2 /\ i < p + Utf8Taken(b, p)
    IN  IF consumed THEN <<>>
        ELSE IF n = 1 THEN <<b[i]>>
        ELSE IF n = 0 \/ Utf8Taken(b, i) < n THEN <<REPLACEMENT>>
        ELSE CASE n = 2 -> <<(b[i] - 192) * 64 + (b[i + 1] - 128)>>
               [] n = 3 -> <<(b[i] - 224) * 4096 + (b[i + 1] - 128) * 64 + (b[i + 2] - 128)>>
               [] n = 4 -> CodeUnits((b[i] - 240) * 262144 + (b[i + 1] - 128) * 4096
                                         + (b[i + 2] - 128) * 64 + (b[i + 3] - 128))

\* buffer.toString("utf-8")
toStringUtf8(buffer) == Flatten2([i \in 1..Len(buffer) |-> Utf8At(buffer, i)])

\* new TextDecoder("utf-8").decode(buffer): a leading byte order mark is dropped
decodeUtf8(buffer) ==
    LET text == toStringUtf8(buffer)
    IN  IF Len(text) > 0 /\ text[1] = BOM THEN SliceFrom(text, 1) ELSE text

---------------------------------------------------------------------------
(* Numbers: an exact decimal (-1)^neg * mant / 10^scale, or NaN *)

NaN == [nan |-> TRUE, neg |-> FALSE, mant |-> 0, scale |-> 0]

RECURSIVE Canon(_, _, _)
Canon(neg, mant, scale) ==      \* trailing fraction zeros carry no value
    IF scale > 0 /\ mant % 10 = 0 THEN Canon(neg, mant \div 10, scale - 1)
    ELSE [nan |-> FALSE, neg |-> neg, mant |-> mant, scale |-> scale]

RECURSIVE DigitsValue(_, _, _)
DigitsValue(s, i, acc) ==
    IF i > Len(s) THEN acc ELSE DigitsValue(s, i + 1, acc * 10 + (s[i] - 48))

\* Number(string) for decimal literals: optional sign, digits with at most
\* one point and at least one digit; surrounding white space ignored; the
\* empty string is 0; anything else is NaN.  (Exponents, Infinity and the
\* 0x/0o/0b forms are outside the inputs explored.)
Number(str) ==
    LET t == trim(str)
        signed == Len(t) > 0 /\ t[1] \in {MINUS, PLUS}
        neg == Len(t) > 0 /\ t[1] = MINUS
        body == IF signed THEN SliceFrom(t, 1) ELSE t
        p == indexOfChar(body, DOT)
        int == IF p = -1 THEN body ELSE Slice(body, 0, p)
        frac == IF p = -1 THEN <<>> ELSE SliceFrom(body, p + 1)
        digits == int \o frac
    IN  IF Len(t) = 0 THEN Canon(FALSE, 0, 0)
        ELSE IF Len(digits) = 0 \/ \E i \in 1..Len(digits) : ~IsDigit(digits[i])
        THEN NaN
        ELSE Canon(neg, DigitsValue(digits, 1, 0), Len(frac))

\* amount >= 0 (false for NaN, true for -0)
GeqZero(n) == ~n.nan /\ (~n.neg \/ n.mant = 0)

\* amount < 0 (false for NaN and for -0)
LtZero(n) == ~n.nan /\ n.neg /\ n.mant > 0

---------------------------------------------------------------------------
(* Normalizers *)

\* (variant: the dot is taken as the decimal point whatever the commas do)
normalizeAmountDotOnly(value) ==
    Number(RemoveChar(RemoveSpaces(value), COMMA))

normalizeAmount(value) ==
    LET trimmed == RemoveSpaces(value)
        hasComma == HasChar(trimmed, COMMA)
        hasDot == HasChar(trimmed, DOT)
        sanitized ==
            IF hasComma /\ hasDot
            THEN IF lastIndexOf(trimmed, COMMA) > lastIndexOf(trimmed, DOT)
                 THEN ReplaceFirst(RemoveChar(trimmed, DOT), COMMA, DOT)
                 ELSE RemoveChar(trimmed, COMMA)
            ELSE IF hasComma
            THEN ReplaceFirst(RemoveChar(trimmed, DOT), COMMA, DOT)
            ELSE RemoveChar(trimmed, COMMA)
    IN  Number(sanitized)

\* canonical decomposition of one code unit: the accented Latin-1 letters
\* split into base letter and combining mark (U+0300..U+036F)
NfdChar(c) ==
    LET up == IF c \in 224..255 THEN c - 32 ELSE c      \* decompose as the capital
        low == IF c \in 224..255 THEN 32 ELSE 0          \* and restore the case
        marks5 == <<768, 769, 770, 771, 776>>
        marks4 == <<768, 769, 770, 776>>
    IN  CASE c = 255 -> <<121, 776>>
          [] up \in 192..196 -> <<65 + low, marks5[up - 191]>>
          [] up = 197 -> <<65 + low, 778>>
          [] up = 199 -> <<67 + low, 807>>
          [] up \in 200..203 -> <<69 + low, marks4[up - 199]>>
          [] up \in 204..207 -> <<73 + low, marks4[up - 203]>>
          [] up = 209 -> <<78 + low, 771>>
          [] up \in 210..214 -> <<79 + low, marks5[up - 209]>>
          [] up \in 217..220 -> <<85 + low, marks4[up - 216]>>
          [] up = 221 -> <<89 + low, 769>>
          [] OTHER -> <<c>>

normalizeNFD(s) == Flatten2([i \in 1..Len(s) |-> NfdChar(s[i])])

IsCombiningMark(c) == c \in 768..879

normalizeText(value) ==
    toLowerCase(SelectSeq(normalizeNFD(value), LAMBDA c : ~IsCombiningMark(c)))

\* value.replace(/\s+/g, " ").trim()
normalizeWhitespaces(value) ==
    trim(SelectSeq([i \in 1..Len(value) |->
                       IF ~IsSpace(value[i]) THEN value[i]
                       ELSE IF i > 1 /\ IsSpace(value[i - 1]) THEN -1
                       ELSE SPACE],
                   LAMBDA c : c # -1))

BULLET == 8226          \* U+2022
ASTERISK == 42

stripObfuscation(value) == trim(SelectSeq(value, LAMBDA c : c \notin {BULLET, ASTERISK}))

---------------------------------------------------------------------------
(* Classifiers *)

kwPix == S(<<"p", "i", "x">>)
kwBoleto == S(<<"b", "o", "l", "e", "t", "o">>)
kwCredito == S(<<"c", "r", "e", "d", "i", "t", "o">>)
kwDebito == S(<<"d", "e", "b", "i", "t", "o">>)
kwCheque == S(<<"c", "h", "e", "q", "u", "e">>)
kwDinheiro == S(<<"d", "i", "n", "h", "e", "i", "r", "o">>)
kwSaque == S(<<"s", "a", "q", "u", "e">>)

\* (variant: the credit test placed after the debit test)
inferPaymentMethodDebitFirst(description) ==
    LET normalized == normalizeText(description)
    IN  IF includes(normalized, kwPix) THEN "PIX"
        ELSE IF includes(normalized, kwBoleto) THEN "BOLETO"
        ELSE IF includes(normalized, kwDebito) THEN "CARTAO_DEBITO"
        ELSE IF includes(normalized, kwCredito) THEN "CARTAO_CREDITO"
        ELSE IF includes(normalized, kwCheque) THEN "CHEQUE"
        ELSE IF includes(normalized, kwDinheiro) \/ includes(normalized, kwSaque)
        THEN "DINHEIRO"
        ELSE "OUTROS"

inferPaymentMethod(description) ==
    LET normalized == normalizeText(description)
    IN  IF includes(normalized, kwPix) THEN "PIX"
        ELSE IF includes(normalized, kwBoleto) THEN "BOLETO"
        ELSE IF includes(normalized, kwCredito) THEN "CARTAO_CREDITO"
        ELSE IF includes(normalized, kwDebito) THEN "CARTAO_DEBITO"
        ELSE IF includes(normalized, kwCheque) THEN "CHEQUE"
        ELSE IF includes(normalized, kwDinheiro) \/ includes(normalized, kwSaque)
        THEN "DINHEIRO"
        ELSE "OUTROS"

\* /[a-zA-Z\u00C0-\u00FF]/
IsLatinLetter(c) == c \in (65..90) \cup (97..122) \cup (192..255)

\* \p{L} over the code units below U+0100
IsLetter(c) ==
    c \in (65..90) \cup (97..122) \cup {170, 181, 186} \cup (192..214)
        \cup (216..246) \cup (248..255)

APOSTROPHE == 39

\* /\d{3}\.\d{3}/.test(part)
LooksMasked(part) ==
    \E p \in 1..(Len(part) - 6) :
        /\ \A k \in {0, 1, 2, 4, 5, 6} : IsDigit(part[p + k])
        /\ part[p + 3] = DOT

\* .replace(/[^\p{L}\s'.-]/gu, "").trim()
KeepNameChars(part) ==
    trim(SelectSeq(part, LAMBDA c :
            IsLetter(c) \/ IsSpace(c) \/ c \in {APOSTROPHE, DOT, MINUS}))

sepDash == <<SPACE, MINUS, SPACE>>
strNaoIdentificado ==
    S(<<"N", "a", "o", " ", "i", "d", "e", "n", "t", "i", "f", "i", "c", "a", "d", "o">>)
COUNTERPART_MAX == 80

\* (variant: the first part can be the candidate, too)
extractCounterpartFromFirst(description) ==
    LET cleaned == stripObfuscation(normalizeWhitespaces(description))
        parts == SelectSeq(MapTrim(splitOn(cleaned, sepDash)), LAMBDA part : Len(part) > 0)
        qualifies == {i \in 1..Len(parts) :
                         (\E k \in 1..Len(parts[i]) : IsLatinLetter(parts[i][k]))
                             /\ ~LooksMasked(parts[i])}
    IN  IF qualifies # {}
        THEN KeepNameChars(stripObfuscation(
                 parts[CHOOSE i \in qualifies : \A j \in qualifies : i <= j]))
        ELSE IF Len(parts) > 1 THEN KeepNameChars(stripObfuscation(parts[2]))
        ELSE IF Len(cleaned) > 0 THEN Slice(cleaned, 0, COUNTERPART_MAX)
        ELSE strNaoIdentificado

\* (variant: the whole description is returned when it is the only part)
extractCounterpartWhole(description) ==
    LET cleaned == stripObfuscation(normalizeWhitespaces(description))
        parts == SelectSeq(MapTrim(splitOn(cleaned, sepDash)), LAMBDA part : Len(part) > 0)
        qualifies == {i \in 2..Len(parts) :
                         (\E k \in 1..Len(parts[i]) : IsLatinLetter(parts[i][k]))
                             /\ ~LooksMasked(parts[i])}
    IN  IF qualifies # {}
        THEN KeepNameChars(stripObfuscation(
                 parts[CHOOSE i \in qualifies : \A j \in qualifies : i <= j]))
        ELSE IF Len(parts) > 1 THEN KeepNameChars(stripObfuscation(parts[2]))
        ELSE IF Len(cleaned) > 0 THEN cleaned
        ELSE strNaoIdentificado

extractCounterpart(description) ==
    LET cleaned == stripObfuscation(normalizeWhitespaces(description))
        parts == SelectSeq(MapTrim(splitOn(cleaned, sepDash)), LAMBDA part : Len(part) > 0)
        qualifies == {i \in 2..Len(parts) :
                         (\E k \in 1..Len(parts[i]) : IsLatinLetter(parts[i][k]))
                             /\ ~LooksMasked(parts[i])}
    IN  IF qualifies # {}
        THEN KeepNameChars(stripObfuscation(
                 parts[CHOOSE i \in qualifies : \A j \in qualifies : i <= j]))
        ELSE IF Len(parts) > 1 THEN KeepNameChars(stripObfuscation(parts[2]))
        ELSE IF Len(cleaned) > 0 THEN Slice(cleaned, 0, COUNTERPART_MAX)
        ELSE strNaoIdentificado

---------------------------------------------------------------------------
(* Completions: a returned value or a thrown error *)

Return_(v) == [ok |-> TRUE, value |-> v]
Throw(e) == [ok |-> FALSE, error |-> e]

\* an optional value: <<>> is undefined, <<v>> is v
Undefined == <<>>
Some(v) == <<v>>

---------------------------------------------------------------------------
(* CSV parser *)

hdrData == S(<<"d", "a", "t", "a">>)
hdrValor == S(<<"v", "a", "l", "o", "r">>)
hdrIdentificador ==
    S(<<"i", "d", "e", "n", "t", "i", "f", "i", "c", "a", "d", "o", "r">>)
hdrDescri == S(<<"d", "e", "s", "c", "r", "i">>)
strUndefined == S(<<"u", "n", "d", "e", "f", "i", "n", "e", "d">>)
strBRL == S(<<"B", "R", "L">>)

\* array.indexOf(x) / array.findIndex(test): 0-based, -1 when absent
FirstIndex(a, hits) ==
    IF hits = {} THEN -1 ELSE (CHOOSE i \in hits : \A j \in hits : i <= j) - 1

\* array[k] with a 0-based index: undefined beyond the end
ElementAt(a, k) == IF k >= 0 /\ k + 1 <= Len(a) THEN Some(a[k + 1]) ELSE Undefined

\* an optional string inside a template literal
Interpolate(opt) == IF opt = Undefined THEN strUndefined ELSE opt[1]

LINE_OFFSET == 2

\* amount >= 0 ? "RECEITA" : "DESPESA"
MovementOf(amount) == IF GeqZero(amount) THEN "RECEITA" ELSE "DESPESA"

\* the object the callback returns (lines 287-305)
CsvTransaction(isoDate, amount, description, reference, index, rawDate, amountRaw) ==
    [date |-> isoDate,
     amount |-> amount,
     description |-> description,
     reference |-> reference,
     counterpart |-> extractCounterpart(description),
     productService |-> "Nao identificado (NI)",
     paymentMethod |-> inferPaymentMethod(description),
     movement |-> MovementOf(amount),
     raw |-> [originalLineNumber |-> index + LINE_OFFSET,
              date |-> rawDate,
              amountRaw |-> amountRaw,
              description |-> description,
              reference |-> reference]]

\* const [day, month, year] = rawDate.split("/"); `${year}-${month}-${day}`
IsoOfPieces(pieces) ==
    Interpolate(ElementAt(pieces, 2)) \o <<MINUS>>
        \o Interpolate(ElementAt(pieces, 1)) \o <<MINUS>>
        \o Interpolate(ElementAt(pieces, 0))

\* the callback once its cells are read: a method called on an undefined
\* cell throws a TypeError
CsvRowOfCells(rawDate, amountRaw, descriptionRaw, reference, index) ==
    IF rawDate = Undefined \/ amountRaw = Undefined \/ descriptionRaw = Undefined
    THEN Throw("TypeError")
    ELSE Return_(CsvTransaction(IsoOfPieces(split(rawDate[1], SLASH)),
                                normalizeAmount(amountRaw[1]),
                                normalizeWhitespaces(descriptionRaw[1]),
                                reference, index, rawDate[1], amountRaw[1]))

CsvRowOfColumns(columns, index, dateIdx, valueIdx, idIdx, descriptionIdx) ==
    CsvRowOfCells(ElementAt(columns, dateIdx), ElementAt(columns, valueIdx),
                  ElementAt(columns, descriptionIdx), ElementAt(columns, idIdx), index)

\* the callback of lines.slice(1).map(...) on one line
CsvRow(line, index, dateIdx, valueIdx, idIdx, descriptionIdx) ==
    CsvRowOfColumns(MapTrim(split(line, COMMA)), index,
                    dateIdx, valueIdx, idIdx, descriptionIdx)

\* (variant: a row whose callback throws is left out)
CollectSkipping(rows) ==
    Return_([k \in 1..Len(SelectSeq(rows, LAMBDA r : r.ok)) |->
                SelectSeq(rows, LAMBDA r : r.ok)[k].value])

\* (variant: the rows come out last first)
CollectReversed(rows) ==
    IF \E k \in 1..Len(rows) : ~rows[k].ok
    THEN Throw("TypeError")
    ELSE Return_([k \in 1..Len(rows) |-> rows[Len(rows) + 1 - k].value])

\* what map gives for the completions of its callback, in order: the first
\* throw ends the map and nothing of the array built so far survives
Collect(rows) ==
    IF \E k \in 1..Len(rows) : ~rows[k].ok
    THEN rows[CHOOSE k \in 1..Len(rows) :
                 ~rows[k].ok /\ \A j \in 1..(k - 1) : rows[j].ok]
    ELSE Return_([k \in 1..Len(rows) |-> rows[k].value])

\* lines.slice(1).map(callback)
MapRows(lines, dateIdx, valueIdx, idIdx, descriptionIdx) ==
    Collect([k \in 1..(Len(lines) - 1) |->
                CsvRow(lines[k + 1], k - 1, dateIdx, valueIdx, idIdx, descriptionIdx)])

\* lines 308-313: the extract returned, unless the map threw
CsvExtract(rows, filename) ==
    IF ~rows.ok THEN rows
    ELSE Return_([filename |-> filename,
                  format |-> "csv",
                  currency |-> Some(strBRL),
                  account |-> Undefined,
                  transactions |-> rows.value])

\* lines 270-275: the four columns must all be found
parseCsvColumns(lines, filename, dateIdx, valueIdx, idIdx, descriptionIdx) ==
    IF dateIdx = -1 \/ valueIdx = -1 \/ idIdx = -1 \/ descriptionIdx = -1
    THEN Throw("Cabecalho do CSV invalido ou fora do padrao esperado.")
    ELSE CsvExtract(MapRows(lines, dateIdx, valueIdx, idIdx, descriptionIdx), filename)

\* (variant: the amount column is found by the start of its name, too)
parseCsvHeaderPrefix(lines, filename, header) ==
    parseCsvColumns(lines, filename,
        FirstIndex(header, {k \in 1..Len(header) : header[k] = hdrData}),
        FirstIndex(header, {k \in 1..Len(header) : startsWith(header[k], hdrValor)}),
        FirstIndex(header, {k \in 1..Len(header) : header[k] = hdrIdentificador}),
        FirstIndex(header, {k \in 1..Len(header) : startsWith(header[k], hdrDescri)}))

\* lines 265-268: where the columns are in the header
parseCsvHeader(lines, filename, header) ==
    parseCsvColumns(lines, filename,
        FirstIndex(header, {k \in 1..Len(header) : header[k] = hdrData}),
        FirstIndex(header, {k \in 1..Len(header) : header[k] = hdrValor}),
        FirstIndex(header, {k \in 1..Len(header) : header[k] = hdrIdentificador}),
        FirstIndex(header, {k \in 1..Len(header) : startsWith(header[k], hdrDescri)}))

\* lines[0].split(",").map((cell) => cell.trim().toLowerCase())
HeaderCells(cells) == [k \in 1..Len(cells) |-> toLowerCase(trim(cells[k]))]

\* (variant: a header alone is enough)
parseCsvLinesHeaderOnly(lines, filename) ==
    IF Len(lines) < 1 THEN Throw("Arquivo CSV sem conteudo suficiente.")
    ELSE parseCsvHeader(lines, filename, HeaderCells(split(lines[1], COMMA)))

\* lines 259-263: at least a header and one row
parseCsvLines(lines, filename) ==
    IF Len(lines) < 2 THEN Throw("Arquivo CSV sem conteudo suficiente.")
    ELSE parseCsvHeader(lines, filename, HeaderCells(split(lines[1], COMMA)))

parseCsv(buffer, filename) ==
    parseCsvLines(SelectSeq(MapTrim(splitLines(decodeLatin1(buffer))),
                            LAMBDA line : Len(line) > 0),
                  filename)

---------------------------------------------------------------------------
(* OFX parser *)

tagOpen(name) == <<LT>> \o name \o <<62>>
tagClose(name) == <<LT, SLASH>> \o name \o <<62>>

\* tag names, in the lower case the case-insensitive match compares with
tBANKACCTFROM == S(<<"b", "a", "n", "k", "a", "c", "c", "t", "f", "r", "o", "m">>)
tBANKTRANLIST == S(<<"b", "a", "n", "k", "t", "r", "a", "n", "l", "i", "s", "t">>)
tSTMTTRN == S(<<"s", "t", "m", "t", "t", "r", "n">>)
tBANKID == S(<<"b", "a", "n", "k", "i", "d">>)
tBRANCHID == S(<<"b", "r", "a", "n", "c", "h", "i", "d">>)
tACCTID == S(<<"a", "c", "c", "t", "i", "d">>)
tACCTTYPE == S(<<"a", "c", "c", "t", "t", "y", "p", "e">>)
tCURDEF == S(<<"c", "u", "r", "d", "e", "f">>)
tDTPOSTED == S(<<"d", "t", "p", "o", "s", "t", "e", "d">>)
tTRNAMT == S(<<"t", "r", "n", "a", "m", "t">>)
tMEMO == S(<<"m", "e", "m", "o">>)
tFITID == S(<<"f", "i", "t", "i", "d">>)
tTRNTYPE == S(<<"t", "r", "n", "t", "y", "p", "e">>)
strZero == S(<<"0">>)

NoMatch == [found |-> FALSE]

SectionBetween(text, name, p, q) ==
    IF q = -1 THEN NoMatch
    ELSE [found |-> TRUE,
          inner |-> Slice(text, p + Len(tagOpen(name)), q),
          lastIndex |-> q + Len(tagClose(name))]

SectionFrom(text, name, p) ==
    IF p = -1 THEN NoMatch
    ELSE SectionBetween(text, name, p,
                        IndexOfFromI(text, tagClose(name), p + Len(tagOpen(name))))

\* exec of /<NAME>([\s\S]*?)<\/NAME>/i on text from lastIndex: the leftmost
\* opening tag that a closing tag follows, up to the nearest closing tag
SectionMatch(text, name, lastIndex) ==
    SectionFrom(text, name, IndexOfFromI(text, tagOpen(name), lastIndex))

\* the positions where /<TAG>([^<]+)/i matches: the tag followed by a
\* character that is not "<"
TagValueHits(text, pat) ==
    Where([i \in 1..Len(text) |->
              /\ MatchAtI(text, pat, i - 1)
              /\ i - 1 + Len(pat) < Len(text)
              /\ text[i + Len(pat)] # LT])

\* the longest run of characters other than "<" at the start of s
ValueRun(s) ==
    SubSeq(s, 1, CHOOSE n \in 0..Len(s) :
                     /\ \A k \in 1..n : s[k] # LT
                     /\ (n = Len(s) \/ s[n + 1] = LT))

\* match?.[1]?.trim() for the leftmost match
TagValueOf(text, pat, hits) ==
    IF hits = <<>> THEN Undefined
    ELSE Some(trim(ValueRun(SliceFrom(text, hits[1] - 1 + Len(pat)))))

\* (variant: the tag name is matched in the letter case it is asked in)
extractTagExact(text, tag) ==
    TagValueOf(text, tagOpen(tag),
               Where([i \in 1..Len(text) |->
                         /\ MatchAt(text, tagOpen(tag), i - 1)
                         /\ i - 1 + Len(tagOpen(tag)) < Len(text)
                         /\ text[i + Len(tagOpen(tag))] # LT]))

extractTag(text, tag) == TagValueOf(text, tagOpen(tag), TagValueHits(text, tagOpen(tag)))

\* x ?? fallback
OrElse(opt, fallback) == IF opt = Undefined THEN fallback ELSE opt[1]

DATE_DIGITS == 8

\* (variant: a date is read from exactly eight digits only)
DateOfDigitsExact(digits) ==
    IF Len(digits) = DATE_DIGITS
    THEN Slice(digits, 0, 4) \o <<MINUS>> \o Slice(digits, 4, 6)
             \o <<MINUS>> \o Slice(digits, 6, 8)
    ELSE <<>>

\* lines 354-357: the date from the digits of DTPOSTED
DateOfDigits(digits) ==
    IF Len(digits) >= DATE_DIGITS
    THEN Slice(digits, 0, 4) \o <<MINUS>> \o Slice(digits, 4, 6)
             \o <<MINUS>> \o Slice(digits, 6, 8)
    ELSE <<>>

\* the object pushed (lines 366-383)
OfxPushed(dateIso, amount, description, posted, amountRaw, fitid, type) ==
    [date |-> dateIso,
     amount |-> amount,
     description |-> description,
     reference |-> Some(fitid),
     counterpart |-> extractCounterpart(description),
     productService |-> "Nao identificado (NI)",
     paymentMethod |-> inferPaymentMethod(description),
     movement |-> MovementOf(amount),
     raw |-> [posted |-> posted,
              amountRaw |-> amountRaw,
              memo |-> description,
              fitid |-> fitid,
              type |-> type]]

OfxTransactionOf(posted, amountRaw, memo, fitid, type) ==
    OfxPushed(DateOfDigits(SelectSeq(posted, IsDigit)), normalizeAmount(amountRaw),
              normalizeWhitespaces(memo), posted, amountRaw, fitid, type)

\* (variant: an absent TRNAMT is read as the empty string)
OfxTransactionNoDefault(block) ==
    OfxTransactionOf(OrElse(extractTag(block, tDTPOSTED), <<>>),
                     OrElse(extractTag(block, tTRNAMT), <<>>),
                     OrElse(extractTag(block, tMEMO), <<>>),
                     OrElse(extractTag(block, tFITID), <<>>),
                     extractTag(block, tTRNTYPE))

\* the body of the while loop on one block
OfxTransaction(block) ==
    OfxTransactionOf(OrElse(extractTag(block, tDTPOSTED), <<>>),
                     OrElse(extractTag(block, tTRNAMT), strZero),
                     OrElse(extractTag(block, tMEMO), <<>>),
                     OrElse(extractTag(block, tFITID), <<>>),
                     extractTag(block, tTRNTYPE))

\* (variant: stmtRegex outlives the call, and the first request left its
\* position at the end of its file)
CarriedLastIndex ==
    IF req[1].pc = "done" /\ req[1].format = "ofx"
    THEN Len(req[1].request.file[1].bytes) ELSE 0

\* the lastIndex of stmtRegex, an object its literal creates in each call
FreshLastIndex == 0

\* while ((match = stmtRegex.exec(section)) !== null) transactions.push(...)
RECURSIVE StmtLoop(_, _, _)
RECURSIVE StmtStep(_, _, _)
StmtStep(section, match, transactions) ==
    IF ~match.found THEN transactions
    ELSE StmtLoop(section, match.lastIndex,
                  Append(transactions, OfxTransaction(match.inner)))

StmtLoop(section, lastIndex, transactions) ==
    StmtStep(section, SectionMatch(section, tSTMTTRN, lastIndex), transactions)

\* (variant: without the section an account with no member is returned)
AccountOfAlways(accountSectionMatch) ==
    Some([bankId |-> IF accountSectionMatch.found
                     THEN extractTag(accountSectionMatch.inner, tBANKID) ELSE Undefined,
          branchId |-> Undefined,
          accountId |-> IF accountSectionMatch.found
                        THEN extractTag(accountSectionMatch.inner, tACCTID) ELSE Undefined,
          type |-> Undefined])

\* lines 327-338: the account of the BANKACCTFROM section
AccountOf(accountSectionMatch) ==
    IF accountSectionMatch.found
    THEN Some([bankId |-> extractTag(accountSectionMatch.inner, tBANKID),
               branchId |-> extractTag(accountSectionMatch.inner, tBRANCHID),
               accountId |-> extractTag(accountSectionMatch.inner, tACCTID),
               type |-> extractTag(accountSectionMatch.inner, tACCTTYPE)])
    ELSE Undefined

\* (variant: an empty list of transactions is returned like any other)
OfxExtractAllowEmpty(transactions, filename, currency, account) ==
    Return_([filename |-> filename,
             format |-> "ofx",
             currency |-> Some(currency),
             account |-> account,
             transactions |-> transactions])

\* lines 386-396: at least one transaction, then the extract
OfxExtract(transactions, filename, currency, account) ==
    IF Len(transactions) = 0
    THEN Throw("Nenhuma transacao encontrada no arquivo OFX.")
    ELSE Return_([filename |-> filename,
                  format |-> "ofx",
                  currency |-> Some(currency),
                  account |-> account,
                  transactions |-> transactions])

parseOfxSections(text, filename, accountSectionMatch, transactionsSectionMatch) ==
    IF ~transactionsSectionMatch.found
    THEN Throw("Arquivo OFX invalido: transacoes nao encontradas.")
    ELSE OfxExtract(StmtLoop(transactionsSectionMatch.inner, FreshLastIndex, <<>>),
                    filename,
                    OrElse(extractTag(text, tCURDEF), strBRL),
                    AccountOf(accountSectionMatch))

parseOfxText(text, filename) ==
    parseOfxSections(text, filename,
                     SectionMatch(text, tBANKACCTFROM, 0),
                     SectionMatch(text, tBANKTRANLIST, 0))

parseOfx(buffer, filename) == parseOfxText(decodeUtf8(buffer), filename)

---------------------------------------------------------------------------
(* Format detection *)

CSV_EXTENSIONS == {S(<<".", "c", "s", "v">>)}
OFX_EXTENSIONS == {S(<<".", "o", "f", "x">>)}
extPdf == S(<<".", "p", "d", "f">>)
strCsv == S(<<"c", "s", "v">>)
strOfx == S(<<"o", "f", "x">>)
strPdf == S(<<"p", "d", "f">>)
strData == S(<<"d", "a", "t", "a">>)
strOFXHEADER == S(<<"O", "F", "X", "H", "E", "A", "D", "E", "R">>)
SNIFF_BYTES == 32

normalizeExtension(name) ==
    LET idx == lastIndexOf(name, DOT)
    IN  IF idx = -1 THEN <<>> ELSE toLowerCase(SliceFrom(name, idx))

\* (variant: the whole buffer is sniffed)
SniffWhole(buffer) ==
    LET snippet == toStringUtf8(buffer)
    IN  IF startsWith(toUpperCase(trimStart(snippet)), strOFXHEADER) THEN "ofx"
        ELSE IF HasChar(snippet, COMMA) /\ includes(toLowerCase(snippet), strData)
        THEN "csv"
        ELSE "null"

\* what the byte sniffing of detectFormat answers
Sniff(buffer) ==
    LET snippet == toStringUtf8(Slice(buffer, 0, SNIFF_BYTES))
    IN  IF startsWith(toUpperCase(trimStart(snippet)), strOFXHEADER) THEN "ofx"
        ELSE IF HasChar(snippet, COMMA) /\ includes(toLowerCase(snippet), strData)
        THEN "csv"
        ELSE "null"

\* (variant: the declared content type is asked before the extension)
detectFormatTypeFirst(file, buffer) ==
    LET extension == normalizeExtension(file.name)
        contentType == toLowerCase(file.type)
    IN  IF includes(contentType, strCsv) THEN "csv"
        ELSE IF includes(contentType, strOfx) THEN "ofx"
        ELSE IF extension \in CSV_EXTENSIONS THEN "csv"
        ELSE IF extension \in OFX_EXTENSIONS THEN "ofx"
        ELSE IF includes(contentType, strPdf) \/ extension = extPdf THEN "pdf"
        ELSE Sniff(buffer)

\* (variant: no PDF rule; such a file goes on to the byte sniffing)
detectFormatNoPdf(file, buffer) ==
    LET extension == normalizeExtension(file.name)
        contentType == toLowerCase(file.type)
    IN  IF extension \in CSV_EXTENSIONS THEN "csv"
        ELSE IF extension \in OFX_EXTENSIONS THEN "ofx"
        ELSE IF includes(contentType, strCsv) THEN "csv"
        ELSE IF includes(contentType, strOfx) THEN "ofx"
        ELSE Sniff(buffer)

detectFormat(file, buffer) ==
    LET extension == normalizeExtension(file.name)
        contentType == toLowerCase(file.type)
    IN  IF extension \in CSV_EXTENSIONS THEN "csv"
        ELSE IF extension \in OFX_EXTENSIONS THEN "ofx"
        ELSE IF includes(contentType, strCsv) THEN "csv"
        ELSE IF includes(contentType, strOfx) THEN "ofx"
        ELSE IF includes(contentType, strPdf) \/ extension = extPdf THEN "pdf"
        ELSE Sniff(buffer)

---------------------------------------------------------------------------
(* Uploaded statements *)

RECURSIVE SeqsUpTo(_, _)
SeqsUpTo(set, n) ==     \* every sequence over set of length <= n
    IF n = 0 THEN {<<>>}
    ELSE LET shorter == SeqsUpTo(set, n - 1)
         IN  shorter \cup {Append(q, x) : q \in shorter, x \in set}


\* Header lines: the text, and the kind of cell each column holds
\* (1 date, 2 amount, 3 identifier, 4 description).
CsvHeaders ==
    << [text |-> S(<<"d", "a", "t", "a", ",", "v", "a", "l", "o", "r", ",", "i", "d", "e",
          "n", "t", "i", "f", "i", "c", "a", "d", "o", "r", ",", "d", "e", "s",
          "c", "r", "i", "c", "a", "o">>),
        order |-> <<1, 2, 3, 4>>, valid |-> TRUE],
       [text |-> S(<<"I", "d", "e", "n", "t", "i", "f", "i", "c", "a", "d", "o", "r", ",",
          " ", "V", "A", "L", "O", "R", " ", ",", "D", "e", "s", "c", "r", "i",
          "c", "a", "o", " ", "c", "o", "m", "p", "l", "e", "t", "a", ",", "D",
          "a", "t", "a">>),
        order |-> <<3, 2, 4, 1>>, valid |-> TRUE],
       [text |-> S(<<"d", "a", "t", "e", ",", "v", "a", "l", "o", "r", ",", "i", "d", "e",
          "n", "t", "i", "f", "i", "c", "a", "d", "o", "r", ",", "d", "e", "s",
          "c", "r", "i", "c", "a", "o">>),
        order |-> <<1, 2, 3, 4>>, valid |-> FALSE],
       \* "valores" is no column named valor
       [text |-> S(<<"d", "a", "t", "a", ",", "v", "a", "l", "o", "r", "e", "s", ",", "i",
          "d", "e", "n", "t", "i", "f", "i", "c", "a", "d", "o", "r", ",", "d", "e", "s",
          "c", "r", "i", "c", "a", "o">>),
        order |-> <<1, 2, 3, 4>>, valid |-> FALSE],
       \* no column named identificador
       [text |-> S(<<"d", "a", "t", "a", ",", "v", "a", "l", "o", "r", ",", "i", "d", ",",
          "d", "e", "s", "c", "r", "i", "c", "a", "o">>),
        order |-> <<1, 2, 3, 4>>, valid |-> FALSE],
       \* no column whose name starts with descri
       [text |-> S(<<"d", "a", "t", "a", ",", "v", "a", "l", "o", "r", ",", "i", "d", "e",
          "n", "t", "i", "f", "i", "c", "a", "d", "o", "r", ",", "h", "i", "s", "t", "o",
          "r", "i", "c", "o">>),
        order |-> <<1, 2, 3, 4>>, valid |-> FALSE] >>

\* Data rows: the cells by kind, and how many columns the line has.
CsvRows ==
    << [cells |-> << S(<<"0", "5", "/", "0", "3", "/", "2", "0", "2", "4">>), S(<<"1", "5", "0", "0", ".", "0", "0">>), S(<<"A", "B", "C", "1", "2", "3">>),
                     S(<<"P", "I", "X", " ", "R", "E", "C", "E", "B", "I", "D", "O", " ", "-",
          " ", "J", "o", "a", "o", " ", "S", "i", "l", "v", "a">>) >>,
        columns |-> 4],
       [cells |-> << S(<<"0", "6", "/", "0", "3", "/", "2", "0", "2", "4">>), S(<<"-", "4", "5", ".", "9", "0">>), S(<<"X", "2">>),
                     S(<<"B", "o", "l", "e", "t", "o", " ", " ", "p", "a", "g", "t", "o">>) >>,
        columns |-> 4],
       \* a date that is no DD/MM/YYYY, an amount that is no number
       [cells |-> << S(<<"2", "0", "2", "4", "-", "0", "3", "-", "0", "7">>), S(<<"a", "b", "c">>), <<>>, S(<<"s", "a", "q", "u", "e">>) >>,
        columns |-> 4],
       \* a line cut after its first column
       [cells |-> << S(<<"0", "7", "/", "0", "3", "/", "2", "0", "2", "4">>), S(<<"1">>), S(<<"X", "4">>), S(<<"t", "e", "d">>) >>,
        columns |-> 1] >>

RECURSIVE JoinCells(_, _, _, _)
JoinCells(cells, order, k, n) ==
    IF k > n THEN <<>>
    ELSE (IF k > 1 THEN <<COMMA>> ELSE <<>>) \o cells[order[k]] \o JoinCells(cells, order, k + 1, n)

CsvLine(h, r) == JoinCells(CsvRows[r].cells, CsvHeaders[h].order, 1, CsvRows[r].columns)

\* Layouts: 1 line feeds; 2 carriage return + line feed, last line open;
\* 3 line feeds with blank lines before the header and before every row.
CsvLayouts == {1, 2, 3, 4}

RECURSIVE CsvBody(_, _, _, _)
CsvBody(h, layout, rows, i) ==
    IF i > Len(rows) THEN <<>>
    ELSE (CASE layout = 1 -> CsvLine(h, rows[i]) \o <<LF>>
            [] layout = 2 -> <<CR, LF>> \o CsvLine(h, rows[i])
            [] layout = 3 -> <<SPACE, LF, LF>> \o CsvLine(h, rows[i]) \o <<LF>>
            [] layout = 4 -> <<LF>> \o CsvLine(h, rows[i]) \o <<LF>>)
         \o CsvBody(h, layout, rows, i + 1)

CsvText(h, layout, rows) ==
    (CASE layout = 1 -> CsvHeaders[h].text \o <<LF>>
       [] layout = 2 -> CsvHeaders[h].text
       [] layout = 3 -> <<LF>> \o CsvHeaders[h].text \o <<LF>>
       [] layout = 4 -> CsvHeaders[h].text \o <<LF>>)
    \o CsvBody(h, layout, rows, 1)

nameCsv == S(<<"e", "x", "t", "r", "a", "t", "o", ".", "c", "s", "v">>)
nameOfx == S(<<"e", "x", "t", "r", "a", "t", "o", ".", "o", "f", "x">>)
namePdf == S(<<"e", "x", "t", "r", "a", "t", "o", ".", "p", "d", "f">>)
nameDocx == S(<<"e", "x", "t", "r", "a", "t", "o", ".", "d", "o", "c", "x">>)
nameBare == S(<<"u", "p", "l", "o", "a", "d">>)
typeCsv == S(<<"t", "e", "x", "t", "/", "c", "s", "v">>)
typeOfx == S(<<"a", "p", "p", "l", "i", "c", "a", "t", "i", "o", "n", "/", "x", "-", "o", "f", "x">>)
typePdf == S(<<"a", "p", "p", "l", "i", "c", "a", "t", "i", "o", "n", "/", "p", "d", "f">>)

\* an upload: the File (name, type), its bytes, and src, which tells how
\* the bytes were put together (read by no operation)
CsvUpload(h, layout, rows) ==
    [name |-> nameCsv, type |-> typeCsv, bytes |-> CsvText(h, layout, rows),
     src |-> [kind |-> "csv", header |-> h, layout |-> layout, rows |-> rows]]

\* CSV files without a header: no byte at all; blank lines only
BrokenCsvUploads ==
    { [name |-> nameCsv, type |-> typeCsv, bytes |-> <<>>,
       src |-> [kind |-> "csv", header |-> 0, layout |-> 1, rows |-> <<>>]],
      [name |-> nameCsv, type |-> typeCsv, bytes |-> <<LF, SPACE, CR, LF, LF>>,
       src |-> [kind |-> "csv", header |-> 0, layout |-> 3, rows |-> <<>>]] }

CsvUploads ==
    {CsvUpload(h, layout, rows) :
        h \in 1..Len(CsvHeaders), layout \in CsvLayouts,
        rows \in SeqsUpTo(1..Len(CsvRows), MaxRows)}

\* Transaction blocks: unclosed upper-case tags; closed lower-case tags with
\* a comma amount; a block with a short date and nothing else.
OfxBlocks ==
    << S(<<"<", "S", "T", "M", "T", "T", "R", "N", ">", "<", "T", "R", "N", "T",
          "Y", "P", "E", ">", "D", "E", "B", "I", "T", "<", "D", "T", "P", "O",
          "S", "T", "E", "D", ">", "2", "0", "2", "4", "0", "1", "1", "5", "1",
          "2", "0", "0", "0", "0", "<", "T", "R", "N", "A", "M", "T", ">", "-",
          "4", "5", ".", "9", "0", "<", "F", "I", "T", "I", "D", ">", "9", "9",
          "8", "8", "7", "7", "6", "6", "<", "M", "E", "M", "O", ">", "B", "O",
          "L", "E", "T", "O", " ", "P", "A", "G", "T", "O", " ", "-", " ", "F",
          "o", "r", "n", "e", "c", "e", "d", "o", "r", " ", "X", "<", "/", "S",
          "T", "M", "T", "T", "R", "N", ">">>),
       S(<<"<", "s", "t", "m", "t", "t", "r", "n", ">", "<", "d", "t", "p", "o",
          "s", "t", "e", "d", ">", "2", "0", "2", "4", "0", "1", "1", "6", "<",
          "/", "d", "t", "p", "o", "s", "t", "e", "d", ">", "<", "t", "r", "n",
          "a", "m", "t", ">", "1", "0", ",", "5", "0", "<", "/", "t", "r", "n",
          "a", "m", "t", ">", "<", "f", "i", "t", "i", "d", ">", "F", "2", "<",
          "/", "f", "i", "t", "i", "d", ">", "<", "m", "e", "m", "o", ">", "P",
          "i", "x", " ", "M", "a", "r", "i", "a", "<", "/", "m", "e", "m", "o",
          ">", "<", "/", "s", "t", "m", "t", "t", "r", "n", ">">>),
       S(<<"<", "S", "T", "M", "T", "T", "R", "N", ">", "<", "D", "T", "P", "O",
          "S", "T", "E", "D", ">", "2", "0", "2", "4", "-", "0", "1", "<", "/",
          "S", "T", "M", "T", "T", "R", "N", ">">>) >>

\* Envelopes: 1 header, currency, account and transaction list; 2 a bare
\* lower-case transaction list; 3 no transaction list around the blocks;
\* 4 a transaction list, and after it a second list of one more block.
OfxEnvelopes ==
    << [open |-> S(<<"O", "F", "X", "H", "E", "A", "D", "E", "R", ":", "1", "0", "0",
          "\n", "<", "O", "F", "X", ">", "<", "C", "U", "R", "D", "E", "F",
          ">", "U", "S", "D", "<", "B", "A", "N", "K", "A", "C", "C", "T", "F",
          "R", "O", "M", ">", "<", "B", "A", "N", "K", "I", "D", ">", "0", "0",
          "1", "<", "A", "C", "C", "T", "I", "D", ">", "1", "2", "3", "<", "/",
          "B", "A", "N", "K", "A", "C", "C", "T", "F", "R", "O", "M", ">", "<",
          "B", "A", "N", "K", "T", "R", "A", "N", "L", "I", "S", "T", ">",
          "\n">>),
        close |-> S(<<"<", "/", "B", "A", "N", "K", "T", "R", "A", "N", "L", "I", "S", "T",
          ">", "<", "/", "O", "F", "X", ">">>)],
       [open |-> S(<<"<", "o", "f", "x", ">", "<", "b", "a", "n", "k", "t", "r", "a", "n",
          "l", "i", "s", "t", ">">>),
        close |-> S(<<"<", "/", "b", "a", "n", "k", "t", "r", "a", "n", "l", "i", "s", "t",
          ">", "<", "/", "o", "f", "x", ">">>)],
       [open |-> S(<<"O", "F", "X", "H", "E", "A", "D", "E", "R", ":", "1", "0", "0",
          "\n", "<", "O", "F", "X", ">">>),
        close |-> S(<<"<", "/", "O", "F", "X", ">">>)],
       [open |-> S(<<"<", "O", "F", "X", ">", "<", "B", "A", "N", "K", "T", "R", "A", "N",
          "L", "I", "S", "T", ">">>),
        close |-> S(<<"<", "/", "B", "A", "N", "K", "T", "R", "A", "N", "L", "I", "S", "T",
          ">", "<", "B", "A", "N", "K", "T", "R", "A", "N", "L", "I", "S", "T", ">",
          "<", "S", "T", "M", "T", "T", "R", "N", ">", "<", "F", "I", "T", "I", "D", ">",
          "Z", "9", "<", "/", "S", "T", "M", "T", "T", "R", "N", ">",
          "<", "/", "B", "A", "N", "K", "T", "R", "A", "N", "L", "I", "S", "T", ">",
          "<", "/", "O", "F", "X", ">">>)] >>

RECURSIVE OfxBody(_, _)
OfxBody(blocks, i) ==
    IF i > Len(blocks) THEN <<>>
    ELSE OfxBlocks[blocks[i]] \o <<LF>> \o OfxBody(blocks, i + 1)

OfxText(e, blocks) == OfxEnvelopes[e].open \o OfxBody(blocks, 1) \o OfxEnvelopes[e].close

\* what each envelope holds: a closed transaction list, an account section
EnvelopeHasList == <<TRUE, TRUE, FALSE, TRUE>>
EnvelopeHasAccount == <<TRUE, FALSE, FALSE, FALSE>>

OfxUpload(e, blocks) ==
    [name |-> nameOfx, type |-> typeOfx, bytes |-> OfxText(e, blocks),
     src |-> [kind |-> "ofx", envelope |-> e, blocks |-> blocks,
              list |-> EnvelopeHasList[e], account |-> EnvelopeHasAccount[e]]]

\* OFX files with a tag left open: a transaction list whose only block is
\* never closed; a list holding text and a stray closing tag but no block;
\* a list that is opened around a block and never closed.
BrokenOfxUploads ==
    { [name |-> nameOfx, type |-> typeOfx,
       bytes |-> S(<<"<", "O", "F", "X", ">", "<", "B", "A", "N", "K", "T", "R", "A", "N",
                     "L", "I", "S", "T", ">", "<", "S", "T", "M", "T", "T", "R", "N", ">",
                     "<", "F", "I", "T", "I", "D", ">", "Q", "1",
                     "<", "/", "B", "A", "N", "K", "T", "R", "A", "N", "L", "I", "S", "T",
                     ">", "<", "/", "O", "F", "X", ">">>),
       src |-> [kind |-> "ofx", envelope |-> 0, blocks |-> <<>>,
                list |-> TRUE, account |-> FALSE]],
      [name |-> nameOfx, type |-> typeOfx,
       bytes |-> S(<<"<", "O", "F", "X", ">", "<", "B", "A", "N", "K", "T", "R", "A", "N",
                     "L", "I", "S", "T", ">", "<", "D", "T", "E", "N", "D", ">", "2", "0",
                     "2", "4", "<", "/", "S", "T", "M", "T", "T", "R", "N", ">",
                     "<", "/", "B", "A", "N", "K", "T", "R", "A", "N", "L", "I", "S", "T",
                     ">", "<", "/", "O", "F", "X", ">">>),
       src |-> [kind |-> "ofx", envelope |-> 0, blocks |-> <<>>,
                list |-> TRUE, account |-> FALSE]],
      [name |-> nameOfx, type |-> typeOfx,
       bytes |-> S(<<"<", "O", "F", "X", ">", "<", "B", "A", "N", "K", "T", "R", "A", "N",
                     "L", "I", "S", "T", ">">>) \o OfxBlocks[1]
                     \o S(<<"<", "/", "O", "F", "X", ">">>),
       src |-> [kind |-> "ofx", envelope |-> 0, blocks |-> <<1>>,
                list |-> FALSE, account |-> FALSE]] }

OfxUploads ==
    {OfxUpload(e, blocks) :
        e \in 1..Len(OfxEnvelopes), blocks \in SeqsUpTo(1..Len(OfxBlocks), MaxRows)}

\* Uploads that are neither by name: a PDF, a PDF name declared as CSV, a
\* word-processor file, and statements under a bare name and no type.
OtherUploads ==
    { [name |-> namePdf, type |-> typePdf, bytes |-> S(<<"%", "P", "D", "F", "-", "1", ".", "4">>),
       src |-> [kind |-> "pdf"]],
      [name |-> namePdf, type |-> <<>>, bytes |-> CsvText(1, 1, <<1>>),
       src |-> [kind |-> "pdf"]],
      [name |-> nameBare, type |-> typePdf, bytes |-> OfxText(1, <<1>>),
       src |-> [kind |-> "pdf"]],
      [name |-> namePdf, type |-> typeCsv, bytes |-> CsvText(1, 1, <<1>>),
       src |-> [kind |-> "pdf as csv", header |-> 1, layout |-> 1, rows |-> <<1>>]],
      [name |-> nameCsv, type |-> typePdf, bytes |-> CsvText(1, 1, <<1>>),
       src |-> [kind |-> "pdf as csv", header |-> 1, layout |-> 1, rows |-> <<1>>]],
      [name |-> nameDocx, type |-> <<>>, bytes |-> S(<<"P", "K">>),
       src |-> [kind |-> "other"]],
      [name |-> nameBare, type |-> <<>>, bytes |-> CsvText(1, 1, <<2>>),
       src |-> [kind |-> "csv", header |-> 1, layout |-> 1, rows |-> <<2>>]],
      [name |-> nameBare, type |-> <<>>, bytes |-> OfxText(1, <<1>>),
       src |-> [kind |-> "ofx", envelope |-> 1, blocks |-> <<1>>,
                list |-> TRUE, account |-> TRUE]] }

Uploads == CsvUploads \cup BrokenCsvUploads \cup OfxUploads \cup BrokenOfxUploads \cup OtherUploads

---------------------------------------------------------------------------
(* POST /api/importar-extrato *)

\* the invocations of the handler that can be in flight together
Slots == {1, 2, 3}

\* a request: whether its cookie holds a token decodeSessionToken accepts,
\* and the "file" field of its form (undefined when missing or no File)
NoRequest == [session |-> FALSE, file |-> Undefined]

Blank ==
    [pc |-> "idle", request |-> NoRequest, format |-> "unset",
     parsed |-> Undefined, logged |-> Undefined, response |-> Undefined]

SomeUpload == CsvUpload(1, 1, <<1>>)

RequestsWith(uploads) ==
    {[session |-> TRUE, file |-> Some(u)] : u \in uploads}
        \cup {[session |-> FALSE, file |-> Some(SomeUpload)],
              [session |-> TRUE, file |-> Undefined]}

Requests == RequestsWith(Uploads)

\* the uploads of the runs with several requests in flight
SharedUploads ==
    {CsvUpload(1, 1, <<1>>), CsvUpload(3, 1, <<1>>),
     OfxUpload(1, <<1, 2>>), OfxUpload(3, <<1>>)}
        \cup {u \in OtherUploads : u.src.kind = "other"}
        \cup {u \in OtherUploads : u.src.kind = "pdf" /\ u.name = namePdf /\ u.type = typePdf}

SharedRequests == RequestsWith(SharedUploads)

JsonNull == [null |-> TRUE]

\* JSON.stringify of a number: NaN becomes null, -0 becomes 0
JsonNumber(n) ==
    IF n.nan THEN JsonNull
    ELSE [neg |-> n.neg /\ n.mant # 0, mant |-> n.mant, scale |-> n.scale]

\* the JSON tree of a ParsedExtract (an undefined member is left out: it
\* stays <<>>)
toJSON(parsed) ==
    [parsed EXCEPT !.transactions =
        [k \in 1..Len(parsed.transactions) |->
            [parsed.transactions[k] EXCEPT !.amount = JsonNumber(@)]]]

Json(body, status) == Some([status |-> status, body |-> body])
STATUS_OK == 200
STATUS_BAD_REQUEST == 400
STATUS_UNAUTHORIZED == 401
STATUS_UNPROCESSABLE == 422

\* lines 434-440: the session check, up to the await of the form data
Start(i, r) ==
    /\ req[i].pc = "idle"
    /\ req' = [req EXCEPT ![i] =
                  IF ~r.session
                  THEN [Blank EXCEPT !.pc = "done", !.request = r,
                            !.response = Json([error |-> "Nao autorizado."],
                                              STATUS_UNAUTHORIZED)]
                  ELSE [Blank EXCEPT !.pc = "formData", !.request = r]]
    /\ UNCHANGED <<unit, db, web, pool, calls, resets>>

\* lines 441-447: the file field, up to the await of its bytes
ReadForm(i) ==
    /\ req[i].pc = "formData"
    /\ req' = [req EXCEPT ![i] =
                  IF req[i].request.file = Undefined
                  THEN [@ EXCEPT !.pc = "done",
                            !.response = Json([error |-> "Campo 'file' e obrigatorio."],
                                              STATUS_BAD_REQUEST)]
                  ELSE [@ EXCEPT !.pc = "arrayBuffer"]]
    /\ UNCHANGED <<unit, db, web, pool, calls, resets>>

\* const buffer = Buffer.from(arrayBuffer): the bytes of this request's file
BufferOf(i) == req[i].request.file[1].bytes

\* lines 452-473: the response for a detected format and what the parser
\* returned or threw
ResponseOf(format, completion) ==
    IF format = "null"
    THEN Json([error |-> "Formato de arquivo nao suportado."], STATUS_BAD_REQUEST)
    ELSE IF format = "pdf"
    THEN Json([error |-> "Importacao de PDF ainda nao esta disponivel. Utilize arquivos CSV ou OFX."],
              STATUS_UNPROCESSABLE)
    ELSE IF completion.ok
    THEN Json(toJSON(completion.value), STATUS_OK)
    ELSE Json([error |-> "Falha ao processar o arquivo. Verifique o formato e tente novamente."],
              STATUS_UNPROCESSABLE)

\* the request once the handler has returned
Completed(r, format, completion) ==
    [r EXCEPT !.pc = "done",
              !.format = format,
              !.parsed = IF format \in {"csv", "ofx"} /\ completion.ok
                         THEN Some(completion.value) ELSE Undefined,
              !.logged = IF format \in {"csv", "ofx"} /\ ~completion.ok
                         THEN Some(completion.error) ELSE Undefined,
              !.response = ResponseOf(format, completion)]

\* lines 458-467: the parser of the detected format, inside the try
Detected(r, file, buffer, format) ==
    Completed(r, format,
              IF format = "csv" THEN parseCsv(buffer, file.name)
              ELSE IF format = "ofx" THEN parseOfx(buffer, file.name)
              ELSE Throw("not called"))

\* lines 448-474: detection, parsing and the response
Process(i) ==
    /\ req[i].pc = "arrayBuffer"
    /\ req' = [req EXCEPT ![i] = Detected(@, @.request.file[1], BufferOf(i),
                                          detectFormat(@.request.file[1], BufferOf(i)))]
    /\ UNCHANGED <<unit, db, web, pool, calls, resets>>

---------------------------------------------------------------------------
(* Calls of one helper on generated arguments *)

\* src tells how a generated argument was put together (<<>> when it is the
\* argument itself)
Idle == [fn |-> "none", src |-> <<>>, arg |-> <<>>, ret |-> <<>>]

RECURSIVE StringsUpTo(_, _)
StringsUpTo(alphabet, n) ==     \* every string over alphabet of length <= n
    IF n = 0 THEN {<<>>}
    ELSE LET shorter == StringsUpTo(alphabet, n - 1)
         IN  shorter \cup {Append(s, c) : s \in shorter, c \in alphabet}

AmountAlphabet == {MINUS, COMMA, DOT, 48, 49, 50}

AmountExamples ==
    { S(<<"1", ".", "2", "3", "4", ",", "5", "6">>),
      S(<<"1", ",", "2", "3", "4", ".", "5", "6">>),
      S(<<"1", "2", "3", "4", ",", "5", "6">>),
      S(<<"1", "2", "3", "4", ".", "5", "6">>),
      S(<<"-", "5", "0", ",", "0", "0">>),
      S(<<"1", ".", "2", "3", "4", ".", "5", "6", "7", ",", "8">>),
      S(<<"1", ",", "2", "3", "4", ",", "5", "6", "7", ".", "8">>) }

AmountInputs == StringsUpTo(AmountAlphabet, MaxAmountLen) \cup AmountExamples

CallNormalizeAmount(s) ==
    /\ unit.ret = <<>>
    /\ unit' = [fn |-> "normalizeAmount", src |-> <<>>, arg |-> s,
                ret |-> <<normalizeAmount(s)>>]
    /\ UNCHANGED <<req, db, web, pool, calls, resets>>

\* Words a description is put together from: the spelling, and the rank of
\* the keyword it spells in the order pix, boleto, credito, debito, cheque,
\* dinheiro/saque (0: no keyword).
WordForms ==
    << [text |-> S(<<"p", "i", "x">>), rank |-> 1],
       [text |-> S(<<"P", "I", "X">>), rank |-> 1],
       [text |-> S(<<"B", "o", "l", "e", "t", "o">>), rank |-> 2],
       [text |-> S(<<"c", "r", "e", "d", "i", "t", "o">>), rank |-> 3],
       [text |-> S(<<"C", "R">>) \o <<201>> \o S(<<"D", "I", "T", "O">>), rank |-> 3],
       [text |-> S(<<"c", "r", "e">>) \o <<769>> \o S(<<"d", "i", "t", "o">>), rank |-> 3],
       [text |-> S(<<"d">>) \o <<233>> \o S(<<"b", "i", "t", "o">>), rank |-> 4],
       [text |-> S(<<"D", "E", "B", "I", "T", "O">>), rank |-> 4],
       [text |-> S(<<"C", "h", "e", "q", "u", "e">>), rank |-> 5],
       [text |-> S(<<"d", "i", "n", "h", "e", "i", "r", "o">>), rank |-> 6],
       [text |-> S(<<"S", "A", "Q", "U", "E">>), rank |-> 6],
       [text |-> S(<<"l", "o", "j", "a">>), rank |-> 0],
       [text |-> S(<<"T", "E", "D">>), rank |-> 0] >>

WordLists == SeqsUpTo(1..Len(WordForms), MaxWords)

RECURSIVE JoinWords(_, _)
JoinWords(ws, i) ==     \* the words separated by single spaces
    IF i > Len(ws) THEN <<>>
    ELSE (IF i > 1 THEN <<SPACE>> ELSE <<>>) \o WordForms[ws[i]].text \o JoinWords(ws, i + 1)

CallInferPaymentMethod(ws) ==
    /\ unit.ret = <<>>
    /\ unit' = [fn |-> "inferPaymentMethod", src |-> ws, arg |-> JoinWords(ws, 1),
                ret |-> <<inferPaymentMethod(JoinWords(ws, 1))>>]
    /\ UNCHANGED <<req, db, web, pool, calls, resets>>

\* Parts a description is put together from, joined by " - ": the text;
\* what is left of it once bullets and asterisks are stripped (clean);
\* whether that holds a letter, and three digits, a dot and three digits
\* (masked); and what is left of it with only letters, white space,
\* apostrophes, dots and hyphens kept (name).
LongPart == S(<<"P", "a", "g", "a", "m", "e", "n", "t", "o", " ", "7", "7", " ">>)
                \o [k \in 1..75 |-> 120]
LongName == S(<<"P", "a", "g", "a", "m", "e", "n", "t", "o", " ", " ">>)
                \o [k \in 1..75 |-> 120]

PartForms ==
    << [text |-> S(<<"P", "I", "X", " ", "R", "E", "C", "E", "B", "I", "D", "O">>),
        clean |-> S(<<"P", "I", "X", " ", "R", "E", "C", "E", "B", "I", "D", "O">>),
        letter |-> TRUE, masked |-> FALSE,
        name |-> S(<<"P", "I", "X", " ", "R", "E", "C", "E", "B", "I", "D", "O">>)],
       [text |-> S(<<"J", "o">>) \o <<227>> \o S(<<"o", " ", "S", "i", "l", "v", "a">>),
        clean |-> S(<<"J", "o">>) \o <<227>> \o S(<<"o", " ", "S", "i", "l", "v", "a">>),
        letter |-> TRUE, masked |-> FALSE,
        name |-> S(<<"J", "o">>) \o <<227>> \o S(<<"o", " ", "S", "i", "l", "v", "a">>)],
       [text |-> S(<<"1", "2", "3", "4", "5">>), clean |-> S(<<"1", "2", "3", "4", "5">>),
        letter |-> FALSE, masked |-> FALSE, name |-> <<>>],
       [text |-> S(<<"C", "P", "F", " ", "1", "2", "3", ".", "4", "5", "6", ".", "7", "8", "9", "-", "0", "0">>),
        clean |-> S(<<"C", "P", "F", " ", "1", "2", "3", ".", "4", "5", "6", ".", "7", "8", "9", "-", "0", "0">>),
        letter |-> TRUE, masked |-> TRUE,
        name |-> S(<<"C", "P", "F", " ", ".", ".", "-">>)],
       [text |-> S(<<"L", "o", "j", "a", " ", "*", "2", "4", "h", "*">>),
        clean |-> S(<<"L", "o", "j", "a", " ", "2", "4", "h">>),
        letter |-> TRUE, masked |-> FALSE,
        name |-> S(<<"L", "o", "j", "a", " ", "h">>)],
       [text |-> <<BULLET>>, clean |-> <<>>,
        letter |-> FALSE, masked |-> FALSE, name |-> <<>>],
       [text |-> LongPart, clean |-> LongPart,
        letter |-> TRUE, masked |-> FALSE, name |-> LongName] >>

\* the descriptions: up to MaxParts parts, a part that the stripping empties
\* standing between two others or alone
PartLists ==
    {ps \in SeqsUpTo(1..Len(PartForms), MaxParts) :
        Len(ps) > 1 => /\ PartForms[ps[1]].clean # <<>>
                       /\ PartForms[ps[Len(ps)]].clean # <<>>}

RECURSIVE JoinParts(_, _)
JoinParts(ps, i) ==
    IF i > Len(ps) THEN <<>>
    ELSE (IF i > 1 THEN sepDash ELSE <<>>) \o PartForms[ps[i]].text \o JoinParts(ps, i + 1)

CallExtractCounterpart(ps) ==
    /\ unit.ret = <<>>
    /\ unit' = [fn |-> "extractCounterpart", src |-> ps, arg |-> JoinParts(ps, 1),
                ret |-> <<extractCounterpart(JoinParts(ps, 1))>>]
    /\ UNCHANGED <<req, db, web, pool, calls, resets>>

\* OFX documents of one transaction block, written from the values of its
\* tags (absent: the tag is left out) in one of three styles: 1 upper-case
\* tags, unclosed; 2 lower-case tags, closed; 3 capitalised tags, unclosed,
\* each value on a line of its own.  iso is the date the digits of a
\* DTPOSTED value spell.
DateForms ==
    << [present |-> FALSE, text |-> <<>>, iso |-> <<>>],
       [present |-> TRUE,
        text |-> S(<<"2", "0", "2", "4", "0", "1", "1", "5", "1", "2", "0", "0", "0", "0",
                     "[", "-", "3", ":", "B", "R", "T", "]">>),
        iso |-> S(<<"2", "0", "2", "4", "-", "0", "1", "-", "1", "5">>)],
       [present |-> TRUE,
        text |-> S(<<"2", "0", "2", "4", "-", "0", "1", "-", "1", "6">>),
        iso |-> S(<<"2", "0", "2", "4", "-", "0", "1", "-", "1", "6">>)],
       [present |-> TRUE,
        text |-> S(<<"2", "0", "2", "4", "-", "0", "1">>), iso |-> <<>>],
       [present |-> TRUE,
        text |-> S(<<"1", "5", "/", "0", "1", "/", "2", "0", "2", "4">>),
        iso |-> S(<<"1", "5", "0", "1", "-", "2", "0", "-", "2", "4">>)] >>

AmountForms ==
    << [present |-> FALSE, text |-> <<>>],
       [present |-> TRUE, text |-> S(<<"-", "4", "5", ".", "9", "0">>)],
       [present |-> TRUE, text |-> S(<<"1", "0", ",", "5", "0">>)] >>

MemoForms ==
    << [present |-> FALSE, text |-> <<>>],
       [present |-> TRUE, text |-> S(<<"P", "i", "x", " ", "-", " ", "M", "a", "r", "i", "a">>)] >>

FitidForms ==
    << [present |-> FALSE, text |-> <<>>],
       [present |-> TRUE, text |-> S(<<"F", "2">>)] >>

TagStyles == {1, 2, 3}

StyledName(style, tag) ==
    CASE style = 1 -> toUpperCase(tag)
      [] style = 2 -> tag
      [] style = 3 -> toUpperCase(<<tag[1]>>) \o Tail(tag)

StyledTag(style, tag, form) ==
    IF ~form.present THEN <<>>
    ELSE CASE style = 1 -> tagOpen(StyledName(style, tag)) \o form.text
           [] style = 2 -> tagOpen(StyledName(style, tag)) \o form.text
                               \o tagClose(StyledName(style, tag))
           [] style = 3 -> tagOpen(StyledName(style, tag)) \o form.text \o <<LF>>

OfxDocument(in, style) ==
    tagOpen(StyledName(style, tBANKTRANLIST))
        \o tagOpen(StyledName(style, tSTMTTRN))
        \o StyledTag(style, tDTPOSTED, DateForms[in[1]])
        \o StyledTag(style, tTRNAMT, AmountForms[in[2]])
        \o StyledTag(style, tFITID, FitidForms[in[4]])
        \o StyledTag(style, tMEMO, MemoForms[in[3]])
        \o tagClose(StyledName(style, tSTMTTRN))
        \o tagClose(StyledName(style, tBANKTRANLIST))

OfxInputs ==
    (1..Len(DateForms)) \X (1..Len(AmountForms)) \X (1..Len(MemoForms))
        \X (1..Len(FitidForms)) \X TagStyles

CallParseOfx(in) ==
    /\ unit.ret = <<>>
    /\ unit' = [fn |-> "parseOfx", src |-> in, arg |-> OfxDocument(in, in[5]),
                ret |-> <<parseOfx(OfxDocument(in, in[5]), nameOfx)>>]
    /\ UNCHANGED <<req, db, web, pool, calls, resets>>

\* File names, declared content types and leading bytes detectFormat is
\* called on, each with what it stands for ("none": nothing recognised).
FileNames ==
    << [text |-> S(<<"e", "x", "t", "r", "a", "t", "o", ".", "c", "s", "v">>), ext |-> "csv"],
       [text |-> S(<<"E", ".", "C", "S", "V">>), ext |-> "csv"],
       [text |-> S(<<"a", ".", "p", "d", "f", ".", "c", "s", "v">>), ext |-> "csv"],
       [text |-> S(<<"e", ".", "o", "f", "x">>), ext |-> "ofx"],
       [text |-> S(<<"e", ".", "O", "f", "x">>), ext |-> "ofx"],
       [text |-> S(<<"e", ".", "p", "d", "f">>), ext |-> "pdf"],
       [text |-> S(<<"e", ".", "c", "s", "v", ".", "P", "D", "F">>), ext |-> "pdf"],
       [text |-> S(<<"e", ".", "d", "o", "c", "x">>), ext |-> "none"],
       [text |-> S(<<"c", "s", "v">>), ext |-> "none"] >>

ContentTypes ==
    << [text |-> <<>>, says |-> "none"],
       [text |-> S(<<"t", "e", "x", "t", "/", "c", "s", "v">>), says |-> "csv"],
       [text |-> S(<<"T", "e", "x", "t", "/", "C", "S", "V">>), says |-> "csv"],
       [text |-> S(<<"a", "p", "p", "l", "i", "c", "a", "t", "i", "o", "n", "/", "o", "f", "x">>),
        says |-> "ofx"],
       [text |-> S(<<"a", "p", "p", "l", "i", "c", "a", "t", "i", "o", "n", "/", "p", "d", "f">>),
        says |-> "pdf"],
       [text |-> S(<<"t", "e", "x", "t", "/", "p", "l", "a", "i", "n">>), says |-> "none"] >>

Padding30 == [i \in 1..30 |-> SPACE]

LeadingBytes ==
    << [bytes |-> S(<<"O", "F", "X", "H", "E", "A", "D", "E", "R", ":", "1", "0", "0">>),
        looks |-> "ofx"],
       [bytes |-> S(<<" ", "\n", "o", "f", "x", "h", "e", "a", "d", "e", "r">>), looks |-> "ofx"],
       [bytes |-> S(<<"D", "a", "t", "a", ",", "v", "a", "l", "o", "r">>), looks |-> "csv"],
       [bytes |-> S(<<"d", "a", "t", "a", ";", "v", "a", "l", "o", "r">>), looks |-> "none"],
       [bytes |-> S(<<"%", "P", "D", "F", "-", "1", ".", "4">>), looks |-> "none"],
       [bytes |-> <<>>, looks |-> "none"],
       \* the comma and the word lie beyond the sniffed bytes
       [bytes |-> Padding30 \o S(<<"d", "a", "t", "a", ",">>), looks |-> "none"],
       [bytes |-> Padding30 \o S(<<"O", "F", "X", "H", "E", "A", "D", "E", "R">>), looks |-> "none"],
       \* the word lies within the sniffed bytes, the comma is the byte after them
       [bytes |-> SubSeq(Padding30, 1, 28) \o S(<<"d", "a", "t", "a", ",">>), looks |-> "none"],
       \* the word and the comma end with the last sniffed byte
       [bytes |-> SubSeq(Padding30, 1, 27) \o S(<<"D", "A", "T", "A", ",", "v">>), looks |-> "csv"],
       \* CSV within the sniffed bytes, the OFX header after them
       [bytes |-> S(<<"D", "a", "t", "a", ",", "v", "a", "l", "o", "r">>) \o Padding30
                      \o S(<<"O", "F", "X", "H", "E", "A", "D", "E", "R">>), looks |-> "csv"],
       \* the OFX header ends with the last sniffed byte, CSV after it
       [bytes |-> SubSeq(Padding30, 1, 23) \o S(<<"o", "f", "x", "H", "E", "A", "D", "E", "R">>)
                      \o S(<<"d", "a", "t", "a", ",">>), looks |-> "ofx"] >>

DetectInputs ==
    (1..Len(FileNames)) \X (1..Len(ContentTypes)) \X (1..Len(LeadingBytes))

CallDetectFormat(in) ==
    LET file == [name |-> FileNames[in[1]].text, type |-> ContentTypes[in[2]].text]
        buffer == LeadingBytes[in[3]].bytes
    IN  /\ unit.ret = <<>>
        /\ unit' = [fn |-> "detectFormat", src |-> in,
                    arg |-> [file |-> file, buffer |-> buffer],
                    ret |-> <<detectFormat(file, buffer)>>]
        /\ UNCHANGED <<req, db, web, pool, calls, resets>>

\* the result has been consumed: the next call may start
Return ==
    /\ unit.ret # <<>>
    /\ unit' = Idle
    /\ UNCHANGED <<req, db, web, pool, calls, resets>>

---------------------------------------------------------------------------
(* The portal: session cookies, the middleware and the API routes *)

Null == <<>>                    \* null of JavaScript

pathRoot == <<SLASH>>
pathDefinirSenha == S(<<"/", "d", "e", "f", "i", "n", "i", "r", "-", "s", "e", "n", "h", "a">>)
pathSolicitarAcesso == S(<<"/", "s", "o", "l", "i", "c", "i", "t", "a", "r", "-", "a", "c", "e", "s", "s", "o">>)
pathAdmin == S(<<"/", "a", "d", "m", "i", "n">>)
pathDashboard == S(<<"/", "d", "a", "s", "h", "b", "o", "a", "r", "d">>)
pathApiClients == S(<<"/", "a", "p", "i", "/", "c", "l", "i", "e", "n", "t", "s">>)
pathApiImportar == S(<<"/", "a", "p", "i", "/", "i", "m", "p", "o", "r", "t", "a", "r", "-", "e", "x", "t", "r", "a", "t", "o">>)
pathNext == S(<<"/", "_", "n", "e", "x", "t">>)
pathStatic == S(<<"/", "s", "t", "a", "t", "i", "c">>)
segApi == S(<<"a", "p", "i">>)
segClients == S(<<"c", "l", "i", "e", "n", "t", "s">>)
segCashEntries == S(<<"c", "a", "s", "h", "-", "e", "n", "t", "r", "i", "e", "s">>)
segUsers == S(<<"u", "s", "e", "r", "s">>)

PUBLIC_PATHS == {pathRoot, pathDefinirSenha, pathSolicitarAcesso}
AUTH_PATH_PREFIXES == {pathAdmin, pathDashboard}
API_PROTECTED_PREFIXES == {pathApiClients, pathApiImportar}

isProtectedPath(pathname) == \E prefix \in AUTH_PATH_PREFIXES : startsWith(pathname, prefix)
isProtectedApi(pathname) == \E prefix \in API_PROTECTED_PREFIXES : startsWith(pathname, prefix)

\* Date.now() while the requests are served
Now == 2

\* A session token is kept by its two parts: what stands before the first
\* dot (nothing; text that is not base64; the base64url of a JSON payload)
\* and what stands after it (nothing; the HMAC of that payload under
\* AUTH_SECRET; another string).
NoToken == [encoded |-> "", signature |-> "", payload |-> Null]

\* middleware.ts decodeSession: the payload, null, or the exception of atob
decodeSession(token) ==
    IF token.encoded = "" \/ token.signature = "" THEN Return_(Null)
    ELSE IF token.encoded = "not base64" THEN Throw("InvalidCharacterError")
    ELSE IF token.signature # "hmac" THEN Return_(Null)
    ELSE IF Now > token.payload[1].exp THEN Return_(Null)
    ELSE Return_(token.payload)

\* lib/session decodeSessionToken: Buffer.from(..., "base64url") takes any text
decodeSessionToken(token) ==
    IF token.encoded = "" \/ token.signature = "" THEN Null
    ELSE IF token.signature # "hmac" THEN Null
    ELSE IF Now > token.payload[1].exp THEN Null
    ELSE token.payload

PassOn == [kind |-> "next"]
Redirect(to) == [kind |-> "redirect", to |-> to]
Failed(e) == [kind |-> "throw", error |-> e]

\* lines 96-116, with the session decoded
middlewareWith(pathname, session) ==
    IF session # Null /\ pathname = pathRoot
    THEN Redirect(IF session[1].admin THEN pathAdmin ELSE pathDashboard)
    ELSE IF session = Null /\ pathname \notin PUBLIC_PATHS
                /\ (isProtectedPath(pathname) \/ isProtectedApi(pathname))
    THEN Redirect(pathRoot)
    ELSE IF session # Null /\ startsWith(pathname, pathAdmin) /\ ~session[1].admin
    THEN Redirect(pathDashboard)
    ELSE IF session # Null /\ startsWith(pathname, pathDashboard) /\ session[1].admin
    THEN Redirect(pathAdmin)
    ELSE PassOn

middlewareDecoded(pathname, decoded) ==
    IF ~decoded.ok THEN Failed(decoded.error) ELSE middlewareWith(pathname, decoded.value)

\* export async function middleware(request)
middleware(request) ==
    IF startsWith(request.pathname, pathNext) \/ startsWith(request.pathname, pathStatic)
    THEN PassOn
    ELSE middlewareDecoded(request.pathname,
                           IF request.cookie = NoToken THEN Return_(Null)
                           ELSE decodeSession(request.cookie))

\* parseId: Number(raw) has to be a positive integer
parseId(raw) ==
    IF Len(raw) > 0 /\ (\A k \in 1..Len(raw) : IsDigit(raw[k])) /\ DigitsValue(raw, 1, 0) > 0
    THEN Return_(DigitsValue(raw, 1, 0))
    ELSE Throw("Identificador invalido.")

\* the route file that serves a path: the segments of the path against the
\* directories of app/api
Segments(pathname) == Tail(splitOn(pathname, <<SLASH>>))

RouteOf(pathname) ==
    LET seg == Segments(pathname)
    IN  IF Len(seg) = 4 /\ seg[1] = segApi /\ seg[2] = segClients /\ seg[4] = segCashEntries
        THEN "cash-entries"
        ELSE IF Len(seg) = 5 /\ seg[1] = segApi /\ seg[2] = segClients
                    /\ seg[4] = segCashEntries
        THEN "cash-entry"
        ELSE IF Len(seg) = 2 /\ seg[1] = segApi /\ seg[2] = segUsers THEN "users"
        ELSE "other"

\* lib/auth: scrypt of the password under a salt; hashPassword draws the
\* salt at random and keeps it with the key
Salts == {1, 2}
scrypt(plain, salt) == <<"scrypt", salt, plain>>
hashPassword(plain, salt) == [salt |-> salt, key |-> scrypt(plain, salt)]
verifyPassword(plain, stored) == scrypt(plain, stored.salt) = stored.key

pwAdmin == S(<<"a", "d", "m", "i", "n", "1", "2", "3">>)
pwTemporary == S(<<"t", "e", "m", "p", "1", "2", "3", "4">>)
pwNew == S(<<"n", "o", "v", "a", "-", "s", "e", "n", "h", "a">>)
pwOther == S(<<"o", "u", "t", "r", "a", "-", "s", "e", "n", "h", "a">>)
pwShort == S(<<"c", "u", "r", "t", "a">>)

\* The database: the companies, the cash entries and the users.
Companies == {1, 2}
CnpjOf == [c \in Companies |-> IF c = 1 THEN "11111111000111" ELSE "22222222000122"]

InitDb ==
    [entries |-> {[id |-> 1, companyId |-> 1, date |-> 1, counterpart |-> "Alfa"],
                  [id |-> 2, companyId |-> 2, date |-> 2, counterpart |-> "Beta"]},
     nextEntryId |-> 3,
     users |-> {[id |-> 1, email |-> "admin@db.com", password |-> hashPassword(pwAdmin, 1),
                 admin |-> TRUE, mustChangePassword |-> FALSE,
                 passwordResetToken |-> Null, companyId |-> Null],
                [id |-> 2, email |-> "um@alfa.com", password |-> hashPassword(pwTemporary, 1),
                 admin |-> FALSE, mustChangePassword |-> TRUE,
                 passwordResetToken |-> Some(<<"uuid", 0>>), companyId |-> Some(1)]},
     nextUserId |-> 3]

Response(status, body) == [status |-> status, body |-> body]

\* the rows of a company, latest date first (orderBy: { date: "desc" })
EntriesOf(entries, companyId) == {e \in entries : e.companyId = companyId}

RECURSIVE ByDateDesc(_)
ByDateDesc(rows) ==
    IF rows = {} THEN <<>>
    ELSE LET first == CHOOSE e \in rows :
                          \A o \in rows : e.date > o.date \/ (e.date = o.date /\ e.id <= o.id)
         IN  <<first>> \o ByDateDesc(rows \ {first})

\* lines 85-132 of both cash-entry routes: the payload is accepted when it
\* has a date that parses and every other field is given and valid
PayloadErrors(payload) ==
    (IF payload.date = 0 THEN {"Informe a data do lancamento."} ELSE {})
        \cup (IF payload.counterpart = "" THEN {"Informe a empresa ou fornecedor."} ELSE {})
        \cup (IF payload.date < 0 THEN {"Data invalida."} ELSE {})

IdleWeb ==
    [pc |-> "idle", request |-> Null, verdict |-> Null, response |-> Null,
     before |-> Null, served |-> 0]

\* the middleware runs on a request; what it passes on reaches its route
Middleware(r) ==
    /\ web.pc = "idle"
    /\ web.served < MaxRequests
    /\ web' = [web EXCEPT !.pc = IF middleware(r).kind = "next" THEN "route" ELSE "done",
                          !.request = Some(r),
                          !.verdict = Some(middleware(r)),
                          !.response = Null,
                          !.before = Some(db),
                          !.served = @ + 1]
    /\ UNCHANGED <<db, pool, calls, resets, req, unit>>

Routed(route, method) ==
    /\ web.pc = "route"
    /\ RouteOf(web.request[1].pathname) = route
    /\ web.request[1].method = method

Answered(response) == web' = [web EXCEPT !.pc = "done", !.response = Some(response)]

\* GET /api/clients/[id]/cash-entries
CashGET ==
    /\ Routed("cash-entries", "GET")
    /\ LET companyId == parseId(Segments(web.request[1].pathname)[3])
       IN  IF ~companyId.ok THEN Answered(Response(500, companyId.error))
           ELSE Answered(Response(200, ByDateDesc(EntriesOf(db.entries, companyId.value))))
    /\ UNCHANGED <<db, pool, calls, resets, req, unit>>

\* POST /api/clients/[id]/cash-entries
CashPOST ==
    /\ Routed("cash-entries", "POST")
    /\ LET companyId == parseId(Segments(web.request[1].pathname)[3])
           payload == web.request[1].body
       IN  IF ~companyId.ok
           THEN Answered(Response(500, companyId.error)) /\ UNCHANGED db
           ELSE IF PayloadErrors(payload) # {}
           THEN Answered(Response(400, PayloadErrors(payload))) /\ UNCHANGED db
           ELSE IF companyId.value \notin Companies        \* P2003
           THEN Answered(Response(404, "Empresa nao encontrada.")) /\ UNCHANGED db
           ELSE /\ db' = [db EXCEPT
                            !.entries = @ \cup {[id |-> db.nextEntryId,
                                                 companyId |-> companyId.value,
                                                 date |-> payload.date,
                                                 counterpart |-> payload.counterpart]},
                            !.nextEntryId = @ + 1]
                /\ Answered(Response(201, [id |-> db.nextEntryId,
                                           companyId |-> companyId.value,
                                           date |-> payload.date,
                                           counterpart |-> payload.counterpart]))
    /\ UNCHANGED <<pool, calls, resets, req, unit>>

\* the row update and delete look for: where { id: entryId, companyId }
RowsAt(entries, companyId, entryId) ==
    {e \in entries : e.id = entryId /\ e.companyId = companyId}

\* PATCH /api/clients/[id]/cash-entries/[entryId]
CashPATCH ==
    /\ Routed("cash-entry", "PATCH")
    /\ LET companyId == parseId(Segments(web.request[1].pathname)[3])
           entryId == parseId(Segments(web.request[1].pathname)[5])
           payload == web.request[1].body
       IN  IF ~companyId.ok
           THEN Answered(Response(500, companyId.error)) /\ UNCHANGED db
           ELSE IF ~entryId.ok
           THEN Answered(Response(500, entryId.error)) /\ UNCHANGED db
           ELSE IF PayloadErrors(payload) # {}
           THEN Answered(Response(400, PayloadErrors(payload))) /\ UNCHANGED db
           ELSE IF RowsAt(db.entries, companyId.value, entryId.value) = {}    \* P2025
           THEN Answered(Response(404, "Lancamento nao encontrado.")) /\ UNCHANGED db
           ELSE /\ db' = [db EXCEPT
                            !.entries = (@ \ RowsAt(db.entries, companyId.value, entryId.value))
                                \cup {[id |-> entryId.value, companyId |-> companyId.value,
                                       date |-> payload.date,
                                       counterpart |-> payload.counterpart]}]
                /\ Answered(Response(200, [id |-> entryId.value,
                                           companyId |-> companyId.value,
                                           date |-> payload.date,
                                           counterpart |-> payload.counterpart]))
    /\ UNCHANGED <<pool, calls, resets, req, unit>>

\* DELETE /api/clients/[id]/cash-entries/[entryId]
CashDELETE ==
    /\ Routed("cash-entry", "DELETE")
    /\ LET companyId == parseId(Segments(web.request[1].pathname)[3])
           entryId == parseId(Segments(web.request[1].pathname)[5])
       IN  IF ~companyId.ok
           THEN Answered(Response(500, companyId.error)) /\ UNCHANGED db
           ELSE IF ~entryId.ok
           THEN Answered(Response(500, entryId.error)) /\ UNCHANGED db
           ELSE IF RowsAt(db.entries, companyId.value, entryId.value) = {}    \* P2025
           THEN Answered(Response(404, "Lancamento nao encontrado.")) /\ UNCHANGED db
           ELSE /\ db' = [db EXCEPT
                            !.entries = @ \ RowsAt(db.entries, companyId.value, entryId.value)]
                /\ Answered(Response(200, [ok |-> TRUE]))
    /\ UNCHANGED <<pool, calls, resets, req, unit>>

\* emailRegex.test and the length of the temporary password, for the
\* payloads the requests carry
MIN_TEMPORARY == 6

ValidEmails == {"novo@alfa.com", "um@alfa.com", "chefe@db.com"}

\* POST /api/users
UsersPOST ==
    /\ Routed("users", "POST")
    /\ LET payload == web.request[1].body
           company == {c \in Companies : CnpjOf[c] = payload.cnpj}
       IN  IF payload.email \notin ValidEmails
           THEN Answered(Response(400, "Informe um e-mail valido.")) /\ UNCHANGED db
           ELSE IF Len(payload.temporaryPassword) < MIN_TEMPORARY
           THEN Answered(Response(400, "Defina uma senha temporaria com pelo menos 6 caracteres."))
                    /\ UNCHANGED db
           ELSE IF ~payload.admin /\ company = {}
           THEN Answered(Response(404, "Nenhum cliente encontrado para este CNPJ."))
                    /\ UNCHANGED db
           ELSE IF \E u \in db.users : u.email = payload.email        \* P2002
           THEN Answered(Response(409, "Ja existe um usuario cadastrado com este e-mail."))
                    /\ UNCHANGED db
           ELSE /\ db' = [db EXCEPT
                            !.users = @ \cup {[id |-> db.nextUserId,
                                               email |-> payload.email,
                                               password |-> hashPassword(payload.temporaryPassword, 1),
                                               admin |-> payload.admin,
                                               mustChangePassword |-> TRUE,
                                               passwordResetToken |-> Null,
                                               companyId |-> IF payload.admin THEN Null
                                                             ELSE Some(CHOOSE c \in company : TRUE)]},
                            !.nextUserId = @ + 1]
                /\ Answered(Response(201, [id |-> db.nextUserId, email |-> payload.email]))
    /\ UNCHANGED <<pool, calls, resets, req, unit>>

\* a page, or a route that keeps nothing in the database
OtherRoute ==
    /\ web.pc = "route"
    /\ \/ RouteOf(web.request[1].pathname) = "other"
       \/ /\ RouteOf(web.request[1].pathname) = "cash-entries"
          /\ web.request[1].method \notin {"GET", "POST"}
       \/ /\ RouteOf(web.request[1].pathname) = "cash-entry"
          /\ web.request[1].method \notin {"PATCH", "DELETE"}
       \/ /\ RouteOf(web.request[1].pathname) = "users"
          /\ web.request[1].method # "POST"
    /\ Answered(Response(200, "other"))
    /\ UNCHANGED <<db, pool, calls, resets, req, unit>>

\* the response went out: the server takes the next request
Served ==
    /\ web.pc = "done"
    /\ web.served < MaxRequests
    /\ web' = [web EXCEPT !.pc = "idle"]
    /\ UNCHANGED <<db, pool, calls, resets, req, unit>>

\* The requests: session cookies of every kind, and the paths and payloads
\* of the pages and routes.
SessionOf(admin, companyId, exp) ==
    Some([userId |-> IF admin THEN "1" ELSE "2", admin |-> admin,
          companyId |-> companyId, exp |-> exp])

Cookies ==
    {NoToken,
     [encoded |-> "json", signature |-> "", payload |-> SessionOf(TRUE, Null, 3)],
     [encoded |-> "not base64", signature |-> "x", payload |-> Null],
     [encoded |-> "json", signature |-> "forged", payload |-> SessionOf(TRUE, Null, 3)],
     [encoded |-> "json", signature |-> "hmac", payload |-> SessionOf(FALSE, Some(1), 1)],
     [encoded |-> "json", signature |-> "hmac", payload |-> SessionOf(FALSE, Some(1), 3)],
     [encoded |-> "json", signature |-> "hmac", payload |-> SessionOf(TRUE, Null, 3)]}

PagePaths ==
    {pathRoot, pathAdmin, pathDashboard, pathDefinirSenha, pathApiImportar,
     S(<<"/", "a", "d", "m", "i", "n", "/", "u", "s", "u", "a", "r", "i", "o", "s">>),
     S(<<"/", "a", "d", "m", "i", "n", "i", "s", "t", "r", "a", "d", "o", "r", "e", "s">>),
     S(<<"/", "d", "a", "s", "h", "b", "o", "a", "r", "d", "/", "l", "i", "v", "r", "o", "-", "c", "a", "i", "x", "a">>),
     S(<<"/", "_", "n", "e", "x", "t", "/", "d", "a", "t", "a">>),
     S(<<"/", "s", "o", "b", "r", "e">>)}

ListPaths ==
    {S(<<"/", "a", "p", "i", "/", "c", "l", "i", "e", "n", "t", "s", "/", "1", "/", "c", "a", "s", "h", "-", "e", "n", "t", "r", "i", "e", "s">>),
     S(<<"/", "a", "p", "i", "/", "c", "l", "i", "e", "n", "t", "s", "/", "2", "/", "c", "a", "s", "h", "-", "e", "n", "t", "r", "i", "e", "s">>),
     S(<<"/", "a", "p", "i", "/", "c", "l", "i", "e", "n", "t", "s", "/", "3", "/", "c", "a", "s", "h", "-", "e", "n", "t", "r", "i", "e", "s">>),
     S(<<"/", "a", "p", "i", "/", "c", "l", "i", "e", "n", "t", "s", "/", "x", "/", "c", "a", "s", "h", "-", "e", "n", "t", "r", "i", "e", "s">>)}

EntryPaths ==
    {S(<<"/", "a", "p", "i", "/", "c", "l", "i", "e", "n", "t", "s", "/", "1", "/", "c", "a", "s", "h", "-", "e", "n", "t", "r", "i", "e", "s", "/", "1">>),
     S(<<"/", "a", "p", "i", "/", "c", "l", "i", "e", "n", "t", "s", "/", "1", "/", "c", "a", "s", "h", "-", "e", "n", "t", "r", "i", "e", "s", "/", "2">>),
     S(<<"/", "a", "p", "i", "/", "c", "l", "i", "e", "n", "t", "s", "/", "2", "/", "c", "a", "s", "h", "-", "e", "n", "t", "r", "i", "e", "s", "/", "2">>),
     S(<<"/", "a", "p", "i", "/", "c", "l", "i", "e", "n", "t", "s", "/", "2", "/", "c", "a", "s", "h", "-", "e", "n", "t", "r", "i", "e", "s", "/", "0">>)}

pathApiUsers == S(<<"/", "a", "p", "i", "/", "u", "s", "e", "r", "s">>)

EntryPayloads ==
    {[date |-> 5, counterpart |-> "Gama"],
     [date |-> 0, counterpart |-> "Gama"],
     [date |-> -1, counterpart |-> ""]}

UserPayloads ==
    {[email |-> "novo@alfa.com", temporaryPassword |-> pwTemporary, admin |-> FALSE,
      cnpj |-> "11111111000111"],
     [email |-> "chefe@db.com", temporaryPassword |-> pwTemporary, admin |-> TRUE, cnpj |-> ""],
     [email |-> "um@alfa.com", temporaryPassword |-> pwTemporary, admin |-> FALSE,
      cnpj |-> "11111111000111"],
     [email |-> "novo@alfa.com", temporaryPassword |-> pwTemporary, admin |-> FALSE,
      cnpj |-> "33333333000133"],
     [email |-> "sem arroba", temporaryPassword |-> pwTemporary, admin |-> FALSE, cnpj |-> ""],
     [email |-> "novo@alfa.com", temporaryPassword |-> pwShort, admin |-> TRUE, cnpj |-> ""]}

NoBody == [none |-> TRUE]

WebRequests ==
    {[method |-> m, pathname |-> p, cookie |-> c, body |-> NoBody] :
        m \in {"GET"}, p \in PagePaths \cup ListPaths, c \in Cookies}
    \cup {[method |-> m, pathname |-> p, cookie |-> c, body |-> NoBody] :
        m \in {"DELETE"}, p \in EntryPaths \cup ListPaths, c \in Cookies}
    \cup {[method |-> m, pathname |-> p, cookie |-> c, body |-> b] :
        m \in {"POST"}, p \in ListPaths, c \in Cookies, b \in EntryPayloads}
    \cup {[method |-> m, pathname |-> p, cookie |-> c, body |-> b] :
        m \in {"PATCH"}, p \in EntryPaths, c \in Cookies, b \in EntryPayloads}
    \cup {[method |-> m, pathname |-> p, cookie |-> c, body |-> b] :
        m \in {"POST"}, p \in {pathApiUsers}, c \in Cookies, b \in UserPayloads}

---------------------------------------------------------------------------
(* The Prisma client of the process and prismaWithRetry *)

\* lib/prisma.ts: the module variable prisma (0: undefined) and every client
\* created so far with the number of $disconnect() calls made on it
InitPool == [prisma |-> 0, disconnects |-> <<>>]

\* createPrismaClient(): the new client is the next in the list
Created(p) == Len(p.disconnects) + 1

\* getPrisma(): the pool after the call; the client is its prisma
getPrisma(p) ==
    IF p.prisma = 0
    THEN [prisma |-> Created(p), disconnects |-> Append(p.disconnects, 0)]
    ELSE p

\* One call of prismaWithRetry: where it stands, the client it took from
\* getPrisma, the client resetPrismaClient is disconnecting or has created,
\* and what it did so far.
IdleCall ==
    [pc |-> "idle", client |-> 0, target |-> 0, refreshed |-> 0, trail |-> <<>>,
     settled |-> Null]

Ran(client, outcome) == [what |-> "operation", client |-> client, outcome |-> outcome]
Discarded(client, outcome) == [what |-> "discard", client |-> client, outcome |-> outcome]
\* the reset of client old that created client new (0: $disconnect() failed)
Reset(old, new) == [what |-> "reset", client |-> old, outcome |-> new]

\* what an operation can settle with
Outcomes == {"result", "cached plan", "error"}

Logged(i, event) == Append(calls[i].trail, event)

\* lines 147-149: getPrisma() and the first operation(client)
Call(i) ==
    /\ calls[i].pc = "idle"
    /\ pool' = getPrisma(pool)
    /\ calls' = [calls EXCEPT ![i] = [@ EXCEPT !.pc = "first", !.client = pool'.prisma]]
    /\ UNCHANGED <<db, web, resets, req, unit>>

\* (variant: every error of the first operation starts the recovery)
FirstSettlesRetryAny(i, outcome) ==
    /\ calls[i].pc = "first"
    /\ calls' = [calls EXCEPT ![i] =
                    [@ EXCEPT !.pc = IF outcome # "result" THEN "discard" ELSE "done",
                              !.trail = Logged(i, Ran(calls[i].client, outcome)),
                              !.settled = IF outcome # "result" THEN Null
                                          ELSE Some(outcome)]]
    /\ UNCHANGED <<db, web, pool, resets, req, unit>>

\* lines 149-156: the first operation settles
FirstSettles(i, outcome) ==
    /\ calls[i].pc = "first"
    /\ calls' = [calls EXCEPT ![i] =
                    [@ EXCEPT !.pc = IF outcome = "cached plan" THEN "discard" ELSE "done",
                              !.trail = Logged(i, Ran(calls[i].client, outcome)),
                              !.settled = IF outcome = "cached plan" THEN Null
                                          ELSE Some(outcome)]]
    /\ UNCHANGED <<db, web, pool, resets, req, unit>>

\* resetPrismaClient up to its await: if (prisma) await prisma.$disconnect()
BeginReset(frame, p) ==
    IF p.prisma = 0
    THEN [frame EXCEPT !.pc = "create", !.target = 0]
    ELSE [frame EXCEPT !.pc = "disconnecting", !.target = p.prisma]

Disconnecting(p) ==
    IF p.prisma = 0 THEN p
    ELSE [p EXCEPT !.disconnects[p.prisma] = @ + 1]

\* lines 156-160: DISCARD ALL settles
DiscardSettles(i, ok) ==
    /\ calls[i].pc = "discard"
    /\ IF ok
       THEN /\ calls' = [calls EXCEPT ![i] =
                            [@ EXCEPT !.pc = "second",
                                      !.trail = Logged(i, Discarded(calls[i].client, "result"))]]
            /\ UNCHANGED pool
       ELSE /\ calls' = [calls EXCEPT ![i] =
                            BeginReset([@ EXCEPT !.trail =
                                            Logged(i, Discarded(calls[i].client, "error"))],
                                       pool)]
            /\ pool' = Disconnecting(pool)
    /\ UNCHANGED <<db, web, resets, req, unit>>

\* lines 157-160: the second operation settles
SecondSettles(i, outcome) ==
    /\ calls[i].pc = "second"
    /\ IF outcome = "result"
       THEN /\ calls' = [calls EXCEPT ![i] =
                            [@ EXCEPT !.pc = "done",
                                      !.trail = Logged(i, Ran(calls[i].client, outcome)),
                                      !.settled = Some(outcome)]]
            /\ UNCHANGED pool
       ELSE /\ calls' = [calls EXCEPT ![i] =
                            BeginReset([@ EXCEPT !.trail =
                                            Logged(i, Ran(calls[i].client, outcome))],
                                       pool)]
            /\ pool' = Disconnecting(pool)
    /\ UNCHANGED <<db, web, resets, req, unit>>

\* prisma.ts lines 29-37 and line 161: $disconnect() settles, the new client
\* is created and stored, and the third operation starts on it
DisconnectSettles(i, ok) ==
    /\ calls[i].pc \in {"disconnecting", "create"}
    /\ IF ok \/ calls[i].pc = "create"
       THEN /\ pool' = [prisma |-> Created(pool),
                        disconnects |-> Append(pool.disconnects, 0)]
            /\ calls' = [calls EXCEPT ![i] =
                            [@ EXCEPT !.pc = "third",
                                      !.refreshed = Created(pool),
                                      !.trail = Logged(i, Reset(calls[i].target, Created(pool)))]]
       ELSE /\ calls' = [calls EXCEPT ![i] =
                            [@ EXCEPT !.pc = "done",
                                      !.trail = Logged(i, Reset(calls[i].target, 0)),
                                      !.settled = Some("error")]]
            /\ UNCHANGED pool
    /\ UNCHANGED <<db, web, resets, req, unit>>

\* line 161: the third operation settles and is what the call settles with
ThirdSettles(i, outcome) ==
    /\ calls[i].pc = "third"
    /\ calls' = [calls EXCEPT ![i] =
                    [@ EXCEPT !.pc = "done",
                              !.trail = Logged(i, Ran(calls[i].refreshed, outcome)),
                              !.settled = Some(outcome)]]
    /\ UNCHANGED <<db, web, pool, resets, req, unit>>

---------------------------------------------------------------------------
(* The server actions of the login and set-password pages *)

\* One run of resetPasswordAction or loginAction: where it stands, the form
\* it was sent, the user it found and what it ended with.
IdleAction ==
    [pc |-> "idle", action |-> "none", form |-> Null, user |-> Null, outcome |-> Null]

InitResets == [frame |-> [i \in Slots |-> IdleAction], uuids |-> 0]

MIN_PASSWORD == 8

\* definir-senha lines 17-38: the checks of the form, up to the await of
\* findUnique
ResetSubmit(i, form) ==
    /\ resets.frame[i].pc = "idle"
    /\ resets' = [resets EXCEPT !.frame[i] =
           IF form.token = <<>>
           THEN [IdleAction EXCEPT !.pc = "done", !.action = "reset", !.form = Some(form),
                     !.outcome = Some("Link invalido ou expirado.")]
           ELSE IF Len(form.password) < MIN_PASSWORD
           THEN [IdleAction EXCEPT !.pc = "done", !.action = "reset", !.form = Some(form),
                     !.outcome = Some("A nova senha deve ter pelo menos 8 caracteres.")]
           ELSE IF form.password # form.confirmPassword
           THEN [IdleAction EXCEPT !.pc = "done", !.action = "reset", !.form = Some(form),
                     !.outcome = Some("As senhas precisam ser iguais.")]
           ELSE [IdleAction EXCEPT !.pc = "findUnique", !.action = "reset",
                     !.form = Some(form)]]
    /\ UNCHANGED <<db, web, pool, calls, req, unit>>

\* findUnique({ where: { passwordResetToken: token } })
UsersWithToken(users, token) == {u \in users : u.passwordResetToken = Some(token)}

\* lines 33-46: findUnique settles and the password is hashed, up to the
\* await of update
ResetFind(i, salt) ==
    /\ resets.frame[i].pc = "findUnique"
    /\ resets.frame[i].action = "reset"
    /\ resets' = [resets EXCEPT !.frame[i] =
           IF UsersWithToken(db.users, resets.frame[i].form[1].token) = {}
           THEN [@ EXCEPT !.pc = "done", !.outcome = Some("Link invalido ou expirado.")]
           ELSE [@ EXCEPT !.pc = "update",
                     !.user = Some([id |-> (CHOOSE u \in UsersWithToken(db.users,
                                               resets.frame[i].form[1].token) : TRUE).id,
                                    hashedPassword |->
                                        hashPassword(resets.frame[i].form[1].password, salt)])]]
    /\ UNCHANGED <<db, web, pool, calls, req, unit>>

\* user.update({ where: { id }, data }): the row with the id, changed
UpdateUser(users, id, change(_)) ==
    {IF u.id = id THEN change(u) ELSE u : u \in users}

\* lines 44-57: update settles and the action redirects
ResetUpdate(i) ==
    /\ resets.frame[i].pc = "update"
    /\ resets.frame[i].action = "reset"
    /\ db' = [db EXCEPT !.users = UpdateUser(@, resets.frame[i].user[1].id,
                 LAMBDA u : [u EXCEPT
                     !.password = resets.frame[i].user[1].hashedPassword,
                     !.mustChangePassword = FALSE,
                     !.passwordResetToken = Null])]
    /\ resets' = [resets EXCEPT !.frame[i] =
                     [@ EXCEPT !.pc = "done", !.outcome = Some("redirect /?senhaAtualizada=1")]]
    /\ UNCHANGED <<web, pool, calls, req, unit>>

\* loginAction lines 131-149: the form, up to the await of findUnique
LoginSubmit(i, form) ==
    /\ resets.frame[i].pc = "idle"
    /\ resets' = [resets EXCEPT !.frame[i] =
                     [IdleAction EXCEPT !.pc = "findUnique", !.action = "login",
                          !.form = Some(form)]]
    /\ UNCHANGED <<db, web, pool, calls, req, unit>>

\* lines 138-176: findUnique settles; the password is verified; up to the
\* await of the update that follows
LoginFind(i) ==
    /\ resets.frame[i].pc = "findUnique"
    /\ resets.frame[i].action = "login"
    /\ LET found == {u \in db.users : u.email = resets.frame[i].form[1].email
                                        /\ verifyPassword(resets.frame[i].form[1].password,
                                                          u.password)}
       IN  resets' =
             IF found = {}
             THEN [resets EXCEPT !.frame[i] =
                      [@ EXCEPT !.pc = "done",
                                !.outcome = Some("Credenciais invalidas. Tente novamente.")]]
             ELSE IF (CHOOSE u \in found : TRUE).mustChangePassword
             THEN [resets EXCEPT !.uuids = @ + 1,
                                 !.frame[i] =
                      [@ EXCEPT !.pc = "update token",
                                !.user = Some([id |-> (CHOOSE u \in found : TRUE).id,
                                               token |-> <<"uuid", resets.uuids + 1>>])]]
             ELSE [resets EXCEPT !.frame[i] =
                      [@ EXCEPT !.pc = "clear token",
                                !.user = Some([id |-> (CHOOSE u \in found : TRUE).id,
                                               admin |-> (CHOOSE u \in found : TRUE).admin])]]
    /\ UNCHANGED <<db, web, pool, calls, req, unit>>

\* lines 157-184: the update settles and the action redirects
LoginUpdate(i) ==
    /\ resets.frame[i].pc \in {"update token", "clear token"}
    /\ resets.frame[i].action = "login"
    /\ db' = [db EXCEPT !.users = UpdateUser(@, resets.frame[i].user[1].id,
                 LAMBDA u : [u EXCEPT !.passwordResetToken =
                     IF resets.frame[i].pc = "update token"
                     THEN Some(resets.frame[i].user[1].token) ELSE Null])]
    /\ resets' = [resets EXCEPT !.frame[i] =
                     [@ EXCEPT !.pc = "done",
                               !.outcome = IF resets.frame[i].pc = "update token"
                                           THEN Some("redirect /definir-senha")
                                           ELSE IF resets.frame[i].user[1].admin
                                           THEN Some("redirect /admin")
                                           ELSE Some("redirect /dashboard")]]
    /\ UNCHANGED <<web, pool, calls, req, unit>>

\* The forms the pages send.
ResetForms ==
    {[token |-> <<"uuid", 0>>, password |-> pwNew, confirmPassword |-> pwNew],
     [token |-> <<"uuid", 0>>, password |-> pwOther, confirmPassword |-> pwOther],
     [token |-> <<"uuid", 1>>, password |-> pwOther, confirmPassword |-> pwOther],
     [token |-> <<"uuid", 9>>, password |-> pwNew, confirmPassword |-> pwNew],
     [token |-> <<>>, password |-> pwNew, confirmPassword |-> pwNew],
     [token |-> <<"uuid", 0>>, password |-> pwShort, confirmPassword |-> pwShort],
     [token |-> <<"uuid", 0>>, password |-> pwNew, confirmPassword |-> pwOther]}

LoginForms ==
    {[email |-> "um@alfa.com", password |-> pwTemporary],
     [email |-> "um@alfa.com", password |-> pwNew],
     [email |-> "admin@db.com", password |-> pwAdmin],
     [email |-> "ninguem@db.com", password |-> pwNew]}

InitCalls == [i \in Slots |-> IdleCall]

---------------------------------------------------------------------------
(* Specifications *)

Init ==
    /\ req = [i \in Slots |-> Blank]
    /\ unit = Idle
    /\ db = InitDb
    /\ web = IdleWeb
    /\ pool = InitPool
    /\ calls = InitCalls
    /\ resets = InitResets

\* one request at a time, over every generated upload
Next ==
    \/ \E r \in Requests : Start(1, r)
    \/ ReadForm(1)
    \/ Process(1)

Spec == Init /\ [][Next]_vars

\* several requests in flight, interleaved at their awaits
NextConcurrent ==
    \E i \in Slots :
        \/ \E r \in SharedRequests : Start(i, r)
        \/ ReadForm(i)
        \/ Process(i)

SpecConcurrent == Init /\ [][NextConcurrent]_vars

NextAmount == (\E s \in AmountInputs : CallNormalizeAmount(s)) \/ Return

SpecAmount == Init /\ [][NextAmount]_vars

NextPayment == (\E ws \in WordLists : CallInferPaymentMethod(ws)) \/ Return

SpecPayment == Init /\ [][NextPayment]_vars

NextCounterpart == (\E ps \in PartLists : CallExtractCounterpart(ps)) \/ Return

SpecCounterpart == Init /\ [][NextCounterpart]_vars

NextOfx == (\E in \in OfxInputs : CallParseOfx(in)) \/ Return

SpecOfx == Init /\ [][NextOfx]_vars

\* the portal serves requests one after the other
NextPortal ==
    \/ \E r \in WebRequests : Middleware(r)
    \/ CashGET
    \/ CashPOST
    \/ CashPATCH
    \/ CashDELETE
    \/ UsersPOST
    \/ OtherRoute
    \/ Served

SpecPortal == Init /\ [][NextPortal]_vars

\* calls of prismaWithRetry in flight together, interleaved at their awaits
RetryStep(i) ==
    \/ Call(i)
    \/ \E outcome \in Outcomes : FirstSettles(i, outcome)
    \/ \E ok \in BOOLEAN : DiscardSettles(i, ok)
    \/ \E outcome \in Outcomes : SecondSettles(i, outcome)
    \/ \E ok \in BOOLEAN : DisconnectSettles(i, ok)
    \/ \E outcome \in Outcomes : ThirdSettles(i, outcome)

NextRetry == \E i \in Slots : RetryStep(i)

SpecRetry == Init /\ [][NextRetry]_vars

\* two calls, every awaited promise of which settles
Callers == {1, 2}

NextRetryLive == \E i \in Callers : RetryStep(i)

SpecRetryLive == Init /\ [][NextRetryLive]_vars /\ WF_vars(NextRetryLive)

\* runs of the server actions in flight together, interleaved at their awaits
NextReset ==
    \E i \in Slots :
        \/ \E form \in ResetForms : ResetSubmit(i, form)
        \/ \E salt \in Salts : ResetFind(i, salt)
        \/ ResetUpdate(i)
        \/ \E form \in LoginForms : LoginSubmit(i, form)
        \/ LoginFind(i)
        \/ LoginUpdate(i)

SpecReset == Init /\ [][NextReset]_vars

NextDetect == (\E in \in DetectInputs : CallDetectFormat(in)) \/ Return

SpecDetect == Init /\ [][NextDetect]_vars

---------------------------------------------------------------------------
(* C1 *)

\* C1: detectFormat applies its rules in order and the first match wins: an
\* extension .csv or .ofx (any letter case) decides whatever the content type
\* and the bytes are; the content type is consulted only when the extension
\* is neither; the bytes are sniffed only when the content type matches
\* nothing.
C1_DetectionOrder ==
    unit.fn = "detectFormat" =>
        LET ext == FileNames[unit.src[1]].ext
            says == ContentTypes[unit.src[2]].says
            looks == LeadingBytes[unit.src[3]].looks
        IN  unit.ret =
              << IF ext \in {"csv", "ofx"} THEN ext
                 ELSE IF says \in {"csv", "ofx"} THEN says
                 ELSE IF says = "pdf" \/ ext = "pdf" THEN "pdf"
                 ELSE IF looks = "none" THEN "null" ELSE looks >>

\* extrato.csv declared as application/ofx with OFX bytes was detected as csv
C1_Witness ==
    /\ unit.fn = "detectFormat"
    /\ unit.src = <<1, 4, 1>>
    /\ unit.ret = <<"csv">>

---------------------------------------------------------------------------
(* What a caller of POST holds once the handler has returned *)

Done(i) == req[i].pc = "done"

\* the request got past the session check and had a file
Uploaded(i) == Done(i) /\ req[i].request.session /\ req[i].request.file # Undefined

FileOf(i) == req[i].request.file[1]
Answer(i) == req[i].response[1]
Parsed(i) == req[i].parsed[1]

PdfNotAvailable ==
    [status |-> 422,
     body |-> [error |-> "Importacao de PDF ainda nao esta disponivel. Utilize arquivos CSV ou OFX."]]

ParseFailure ==
    [status |-> 422,
     body |-> [error |-> "Falha ao processar o arquivo. Verifique o formato e tente novamente."]]

NotSupported ==
    [status |-> 400, body |-> [error |-> "Formato de arquivo nao suportado."]]

---------------------------------------------------------------------------
(* C2 *)

\* a PDF upload by its name or by its declared content type
ClaimedPdf(file) ==
    \/ normalizeExtension(file.name) = extPdf
    \/ includes(toLowerCase(file.type), strPdf)

\* the name or the declared content type says CSV or OFX
ClaimedStatement(file) ==
    \/ normalizeExtension(file.name) \in CSV_EXTENSIONS \cup OFX_EXTENSIONS
    \/ includes(toLowerCase(file.type), strCsv)
    \/ includes(toLowerCase(file.type), strOfx)

\* C2 as stated: every upload with extension .pdf or with a content type
\* containing "pdf" gets the PDF-not-available answer and reaches no parser.
C2_Original ==
    \A i \in Slots :
        (Uploaded(i) /\ ClaimedPdf(FileOf(i))) =>
            /\ Answer(i) = PdfNotAvailable
            /\ req[i].parsed = Undefined /\ req[i].logged = Undefined

\* C2: an upload with extension .pdf or with a content type containing "pdf",
\* whose extension is neither .csv nor .ofx and whose content type contains
\* neither "csv" nor "ofx", gets the PDF-not-available answer: no parser was
\* called on it, the answer is not the parse-failure answer, and it is not
\* the answer an unrecognised upload gets.
C2_PdfNotAvailable ==
    \A i \in Slots :
        /\ (Uploaded(i) /\ ClaimedPdf(FileOf(i)) /\ ~ClaimedStatement(FileOf(i))) =>
              /\ Answer(i) = PdfNotAvailable
              /\ Answer(i) # ParseFailure
              /\ Answer(i) # NotSupported
              /\ req[i].parsed = Undefined /\ req[i].logged = Undefined
        /\ (Uploaded(i) /\ FileOf(i).src.kind = "other") =>
              Answer(i) = NotSupported /\ Answer(i) # PdfNotAvailable

\* extrato.pdf declared application/pdf was answered with the PDF message
C2_Witness ==
    /\ Uploaded(1)
    /\ FileOf(1).name = namePdf /\ FileOf(1).type = typePdf
    /\ Answer(1) = PdfNotAvailable

---------------------------------------------------------------------------
(* C3 *)

\* the failure category of a finished request, "none" when it has none
Category(i) ==
    IF ~Uploaded(i) THEN "none"
    ELSE IF req[i].format = "null" THEN "unsupported_format"
    ELSE IF req[i].format = "pdf" THEN "unsupported_format_pdf"
    ELSE IF req[i].format = "csv" /\ req[i].logged # Undefined THEN "malformed_csv"
    ELSE IF req[i].format = "ofx" /\ req[i].logged # Undefined THEN "malformed_ofx"
    ELSE "none"

\* C3: two failed imports of different categories give their callers
\* different answers, so that the category can be told from the answer.
C3_Original ==
    \A i, j \in Slots :
        (Category(i) # "none" /\ Category(j) # "none" /\ Category(i) # Category(j))
            => Answer(i) # Answer(j)

---------------------------------------------------------------------------
(* C4 *)

\* the transactions the uploaded file holds: its data rows, or the blocks
\* of its transaction list
SourceCount(src) ==
    IF src.kind \in {"csv", "pdf as csv"} THEN Len(src.rows)
    ELSE IF src.kind = "ofx" THEN Len(src.blocks)
    ELSE 0

\* C4: a finished import either answers 200 with the whole extract, holding
\* as many transactions as the file has, or answers with one error and
\* nothing else: no partial transaction list goes out.
C4_AllOrNothing ==
    \A i \in Slots :
        Done(i) =>
            \/ /\ Answer(i).status = 200
               /\ req[i].parsed # Undefined
               /\ Answer(i).body = toJSON(Parsed(i))
               /\ Len(Answer(i).body.transactions) = SourceCount(FileOf(i).src)
            \/ /\ Answer(i).status # 200
               /\ DOMAIN Answer(i).body = {"error"}
               /\ req[i].parsed = Undefined

\* a CSV whose second row throws, after a first row that parsed, was
\* answered with the parse failure alone
C4_Witness ==
    /\ Uploaded(1)
    /\ FileOf(1).src.kind = "csv" /\ FileOf(1).src.header = 1
    /\ FileOf(1).src.rows = <<1, 4>>
    /\ req[1].logged = Some("TypeError")
    /\ Answer(1) = ParseFailure

---------------------------------------------------------------------------
(* C5 *)

SameCall(i, j) ==
    /\ req[i].request.session = req[j].request.session
    /\ (req[i].request.file = Undefined) = (req[j].request.file = Undefined)
    /\ req[i].request.file # Undefined =>
          /\ FileOf(i).name = FileOf(j).name
          /\ FileOf(i).type = FileOf(j).type
          /\ FileOf(i).bytes = FileOf(j).bytes

---------------------------------------------------------------------------
(* C6 *)

\* the decimal point the separator rule designates in s
RuleDecimalPoint(s) ==
    LET commas == {i \in 1..Len(s) : s[i] = COMMA}
        dots == {i \in 1..Len(s) : s[i] = DOT}
    IN  IF commas # {} /\ dots # {}
        THEN IF \E i \in commas : \A j \in dots : j < i THEN COMMA ELSE DOT
        ELSE IF commas # {} THEN COMMA ELSE DOT

\* the inputs the rule is stated for: an optional minus sign in front, then
\* digits, commas and dots
RuleInput(s) ==
    /\ s # <<>>
    /\ \A i \in 1..Len(s) : IsDigit(s[i]) \/ s[i] \in {COMMA, DOT} \/ (i = 1 /\ s[i] = MINUS)

\* s is a numeral under the rule: some digit, and the designated decimal
\* point at most once
RuleNumeral(s) ==
    /\ \E i \in 1..Len(s) : IsDigit(s[i])
    /\ Cardinality({i \in 1..Len(s) : s[i] = RuleDecimalPoint(s)}) <= 1

\* its value: all digits in order, scaled by the digits after the point
RuleAmount(s) ==
    LET d == RuleDecimalPoint(s)
        digitAt == {i \in 1..Len(s) : IsDigit(s[i])}
        after == {i \in digitAt : \E j \in 1..(i - 1) : s[j] = d}
        RECURSIVE Val(_, _)
        Val(i, acc) ==
            IF i > Len(s) THEN acc
            ELSE Val(i + 1, IF i \in digitAt THEN acc * 10 + (s[i] - 48) ELSE acc)
    IN  Canon(s[1] = MINUS, Val(1, 0), Cardinality(after))

Decimal(neg, mant, scale) == <<Canon(neg, mant, scale)>>

\* C6: normalizeAmount follows the separator rule: with both separators the
\* later one is the decimal point and the other is grouping, a lone comma is
\* the decimal point, otherwise the dot is; an input that is no numeral under
\* the rule is NaN; and the four documented examples give 1234.56 and -50.
C6_SeparatorRule ==
    (unit.fn = "normalizeAmount" /\ RuleInput(unit.arg)) =>
        /\ unit.ret = IF RuleNumeral(unit.arg) THEN <<RuleAmount(unit.arg)>> ELSE <<NaN>>
        /\ unit.arg = S(<<"1", ".", "2", "3", "4", ",", "5", "6">>)
               => unit.ret = Decimal(FALSE, 123456, 2)
        /\ unit.arg = S(<<"1", ",", "2", "3", "4", ".", "5", "6">>)
               => unit.ret = Decimal(FALSE, 123456, 2)
        /\ unit.arg = S(<<"1", "2", "3", "4", ",", "5", "6">>)
               => unit.ret = Decimal(FALSE, 123456, 2)
        /\ unit.arg = S(<<"-", "5", "0", ",", "0", "0">>)
               => unit.ret = Decimal(TRUE, 50, 0)

\* a call on "1.234,56", both separators with the comma last, returned 1234.56
C6_Witness ==
    /\ unit.fn = "normalizeAmount"
    /\ unit.arg = S(<<"1", ".", "2", "3", "4", ",", "5", "6">>)
    /\ unit.ret = Decimal(FALSE, 123456, 2)

---------------------------------------------------------------------------
(* C7 *)

\* YYYY-MM-DD: four digits, hyphen, two digits, hyphen, two digits
IsoDate(d) ==
    /\ Len(d) = 10
    /\ d[5] = MINUS /\ d[8] = MINUS
    /\ \A k \in {1, 2, 3, 4, 6, 7, 9, 10} : IsDigit(d[k])

\* C7: every transaction of a parsed extract has a date of the form
\* YYYY-MM-DD or the empty string.
C7_Original ==
    \A i \in Slots :
        (Done(i) /\ req[i].parsed # Undefined) =>
            \A k \in 1..Len(Parsed(i).transactions) :
                \/ Parsed(i).transactions[k].date = <<>>
                \/ IsoDate(Parsed(i).transactions[k].date)

---------------------------------------------------------------------------
(* C8 *)

\* C8: every transaction of a parsed extract is RECEITA exactly when its
\* amount is >= 0 and DESPESA exactly when its amount is < 0, and nothing
\* else.
C8_Original ==
    \A i \in Slots :
        (Done(i) /\ req[i].parsed # Undefined) =>
            \A k \in 1..Len(Parsed(i).transactions) :
                LET t == Parsed(i).transactions[k]
                IN  /\ t.movement \in {"RECEITA", "DESPESA"}
                    /\ (t.movement = "RECEITA") = GeqZero(t.amount)
                    /\ (t.movement = "DESPESA") = LtZero(t.amount)

---------------------------------------------------------------------------
(* C9 *)

\* the DTPOSTED text of each transaction block of the generated files
BlockPosted ==
    << S(<<"2", "0", "2", "4", "0", "1", "1", "5", "1", "2", "0", "0", "0", "0">>),
       S(<<"2", "0", "2", "4", "0", "1", "1", "6">>),
       S(<<"2", "0", "2", "4", "-", "0", "1">>) >>

\* C9: a parsed extract has one transaction per non-empty data line of the
\* CSV file, or per block of the OFX transaction list, the k-th transaction
\* made from the k-th of them.
C9_OrderAndCount ==
    \A i \in Slots :
        (Done(i) /\ req[i].parsed # Undefined) =>
            LET src == FileOf(i).src
                ts == Parsed(i).transactions
            IN  IF req[i].format = "csv"
                THEN /\ Len(ts) = Len(src.rows)
                     /\ \A k \in 1..Len(ts) :
                            /\ ts[k].raw.date = CsvRows[src.rows[k]].cells[1]
                            /\ ts[k].raw.amountRaw = CsvRows[src.rows[k]].cells[2]
                            /\ ts[k].reference = Some(CsvRows[src.rows[k]].cells[3])
                ELSE /\ Len(ts) = Len(src.blocks)
                     /\ \A k \in 1..Len(ts) :
                            ts[k].raw.posted = BlockPosted[src.blocks[k]]

\* a CSV with the second sample row above the first came out in that order
C9_Witness ==
    /\ Uploaded(1) /\ req[1].parsed # Undefined
    /\ FileOf(1).src.kind = "csv" /\ FileOf(1).src.layout = 3
    /\ FileOf(1).src.rows = <<2, 1>>
    /\ Parsed(1).transactions[1].raw.date = CsvRows[2].cells[1]
    /\ Parsed(1).transactions[2].raw.date = CsvRows[1].cells[1]

---------------------------------------------------------------------------
(* C10 *)

RankMethod ==
    <<"PIX", "BOLETO", "CARTAO_CREDITO", "CARTAO_DEBITO", "CHEQUE", "DINHEIRO">>

\* the method of the keyword that comes first in the priority order among
\* the keywords the words spell, wherever they stand
FirstInOrder(ws) ==
    LET ranks == {WordForms[ws[i]].rank : i \in 1..Len(ws)} \ {0}
    IN  IF ranks = {} THEN "OUTROS"
        ELSE RankMethod[CHOOSE r \in ranks : \A q \in ranks : r <= q]

\* C10: inferPaymentMethod returns the method of the first keyword, in the
\* order pix, boleto, credito, debito, cheque, dinheiro/saque, that occurs in
\* the description, whatever the positions, letter case and accents of the
\* words, and OUTROS when none occurs.
C10_PriorityOrder ==
    unit.fn = "inferPaymentMethod" => unit.ret = <<FirstInOrder(unit.src)>>

\* "DEBITO CR\u00C9DITO": the later keyword of the text, accented and in
\* capitals, won over the earlier one
C10_Witness ==
    /\ unit.fn = "inferPaymentMethod"
    /\ unit.src = <<8, 5>>
    /\ unit.ret = <<"CARTAO_CREDITO">>

---------------------------------------------------------------------------
(* C11 *)

\* the request was an upload that reached parseOfx
OfxParsed(i) == Uploaded(i) /\ req[i].format = "ofx" /\ FileOf(i).src.kind = "ofx"

\* C11: an OFX file whose transaction list holds no complete STMTTRN block
\* (an empty list, a block never closed, text without a block) fails with
\* the no-transactions error, and every extract parseOfx returns has at
\* least one transaction.
C11_NoEmptySuccess ==
    \A i \in Slots :
        OfxParsed(i) =>
            /\ (FileOf(i).src.list /\ FileOf(i).src.blocks = <<>>) =>
                  /\ req[i].logged = Some("Nenhuma transacao encontrada no arquivo OFX.")
                  /\ req[i].parsed = Undefined
                  /\ Answer(i) = ParseFailure
            /\ req[i].parsed # Undefined => Len(Parsed(i).transactions) >= 1

\* a list whose only block is never closed failed with the no-transactions
\* error
C11_Witness ==
    /\ OfxParsed(1)
    /\ FileOf(1).src.envelope = 0 /\ FileOf(1).src.list
    /\ includes(FileOf(1).bytes, S(<<"<", "S", "T", "M", "T", "T", "R", "N", ">">>))
    /\ req[1].logged = Some("Nenhuma transacao encontrada no arquivo OFX.")

---------------------------------------------------------------------------
(* C12 *)

\* C12: parseOfx fails with the transactions-not-found error exactly when
\* the text has no closed BANKTRANLIST section; without a BANKACCTFROM
\* section the parse goes on as with one, and the extract and the answer
\* have no account member.
C12_SectionsRequired ==
    \A i \in Slots :
        OfxParsed(i) =>
            /\ (req[i].logged = Some("Arquivo OFX invalido: transacoes nao encontradas."))
                  = ~FileOf(i).src.list
            /\ (FileOf(i).src.list /\ FileOf(i).src.blocks # <<>>) =>
                  /\ req[i].parsed # Undefined
                  /\ (Parsed(i).account = Undefined) = ~FileOf(i).src.account
                  /\ Answer(i).body.account = Parsed(i).account

\* a bare transaction list with one block and no account section was parsed,
\* and the extract has no account
C12_Witness ==
    /\ OfxParsed(1)
    /\ FileOf(1).src.envelope = 2 /\ FileOf(1).src.blocks = <<2>>
    /\ req[1].parsed # Undefined
    /\ Parsed(1).account = Undefined
    /\ Answer(1).status = 200

---------------------------------------------------------------------------
(* C13 *)

\* the request was an upload that reached parseCsv
CsvParsed(i) ==
    Uploaded(i) /\ req[i].format = "csv" /\ FileOf(i).src.kind \in {"csv", "pdf as csv"}

\* the lines of the file that are not blank: its header, if it has one, and
\* its data rows
NonBlankLines(src) == (IF src.header = 0 THEN 0 ELSE 1) + Len(src.rows)

\* C13: parseCsv fails with the insufficient-content error exactly when the
\* file has fewer than two lines that are not blank, however many blank
\* lines it has.
C13_TwoLines ==
    \A i \in Slots :
        CsvParsed(i) =>
            (req[i].logged = Some("Arquivo CSV sem conteudo suficiente."))
                = (NonBlankLines(FileOf(i).src) < 2)

\* a header between blank lines, with no data row, was refused
C13_Witness ==
    /\ CsvParsed(1)
    /\ FileOf(1).src.header = 1 /\ FileOf(1).src.layout = 3
    /\ FileOf(1).src.rows = <<>>
    /\ Len(splitLines(decodeLatin1(FileOf(1).bytes))) >= 2
    /\ req[1].logged = Some("Arquivo CSV sem conteudo suficiente.")

---------------------------------------------------------------------------
(* C14 *)

\* C14: a CSV file with a header and at least one row fails with the
\* invalid-header error exactly when its header lacks a column named data,
\* valor or identificador, or one whose name starts with descri (letter case
\* and blanks around the names apart); with the four present in any order,
\* every row that parses has its cells read from the columns so named.
C14_HeaderColumns ==
    \A i \in Slots :
        (CsvParsed(i) /\ FileOf(i).src.header # 0 /\ FileOf(i).src.rows # <<>>) =>
            LET src == FileOf(i).src
            IN  /\ (req[i].logged = Some("Cabecalho do CSV invalido ou fora do padrao esperado."))
                      = ~CsvHeaders[src.header].valid
                /\ req[i].parsed # Undefined =>
                      \A k \in 1..Len(Parsed(i).transactions) :
                          LET t == Parsed(i).transactions[k]
                              cells == CsvRows[src.rows[k]].cells
                          IN  /\ t.raw.date = cells[1]
                              /\ t.raw.amountRaw = cells[2]
                              /\ t.amount = normalizeAmount(cells[2])
                              /\ t.reference = Some(cells[3])
                              /\ t.description = normalizeWhitespaces(cells[4])

\* a header with the columns in the order identificador, valor, descricao,
\* data was accepted and the date was read from the fourth column
C14_Witness ==
    /\ CsvParsed(1)
    /\ FileOf(1).src.header # 0
    /\ CsvHeaders[FileOf(1).src.header].order = <<3, 2, 4, 1>>
    /\ FileOf(1).src.rows = <<1>>
    /\ req[1].parsed # Undefined
    /\ Parsed(1).transactions[1].raw.date = CsvRows[1].cells[1]
    /\ Parsed(1).transactions[1].date = S(<<"2", "0", "2", "4", "-", "0", "3", "-", "0", "5">>)

---------------------------------------------------------------------------
(* C15 *)

\* the sample data rows whose date is no DD/MM/YYYY, and those whose amount
\* is no number or is not there
RowDateUnparseable == {3}
RowAmountNotNumeric == {3}
RowAmountMissing == {4}

\* the sample transaction blocks whose DTPOSTED has fewer than 8 digits
BlockDateUnparseable == {3}

\* C15: a file that passes the structural checks is parsed whatever its
\* rows hold: every row or block comes out, one with an unparseable date
\* has the empty date, one with a non-numeric or missing amount has no
\* numeric amount other than the default.
C15_Original ==
    \A i \in Slots :
        /\ (CsvParsed(i) /\ NonBlankLines(FileOf(i).src) >= 2
                /\ CsvHeaders[FileOf(i).src.header].valid) =>
              /\ req[i].parsed # Undefined
              /\ Len(Parsed(i).transactions) = Len(FileOf(i).src.rows)
              /\ \A k \in 1..Len(Parsed(i).transactions) :
                    /\ FileOf(i).src.rows[k] \in RowDateUnparseable
                          => Parsed(i).transactions[k].date = <<>>
                    /\ FileOf(i).src.rows[k] \in RowAmountNotNumeric
                          => Parsed(i).transactions[k].amount = NaN
        /\ (OfxParsed(i) /\ FileOf(i).src.list /\ FileOf(i).src.blocks # <<>>) =>
              /\ req[i].parsed # Undefined
              /\ Len(Parsed(i).transactions) = Len(FileOf(i).src.blocks)
              /\ \A k \in 1..Len(Parsed(i).transactions) :
                    FileOf(i).src.blocks[k] \in BlockDateUnparseable
                        => Parsed(i).transactions[k].date = <<>>

\* ---- the counterpart of a description ----

Extracted == unit.fn = "extractCounterpart" /\ unit.ret # <<>>

\* the parts of a generated description that are left once the stripping
\* has emptied some, and those of them after the first that hold a letter
\* and no three digits, a dot and three digits
KeptParts(ps) == SelectSeq(ps, LAMBDA f : PartForms[f].clean # <<>>)
Qualifying(ps) ==
    {i \in 2..Len(KeptParts(ps)) :
        PartForms[KeptParts(ps)[i]].letter /\ ~PartForms[KeptParts(ps)[i]].masked}

\* C16 (as the specification states it): the counterpart extracted from a
\* description is never empty, also when the parts after the first hold
\* digits or punctuation only.
C16_Original == Extracted => unit.ret[1] # <<>>

\* C19: when some part after the first holds a letter and no three digits, a
\* dot and three digits, the counterpart is the first such part, with only
\* its letters, white space, apostrophes, dots and hyphens kept; the first
\* part of the description is never the one chosen.
C19_FirstQualifying ==
    (Extracted /\ Qualifying(unit.src) # {}) =>
        unit.ret[1] = PartForms[KeptParts(unit.src)[
                          CHOOSE i \in Qualifying(unit.src) :
                              \A j \in Qualifying(unit.src) : i <= j]].name

\* a description of three parts whose second part is a masked number and
\* whose first and third parts are names: the third part is the answer
C19_Witness ==
    /\ Extracted
    /\ unit.src = <<1, 4, 2>>
    /\ unit.ret[1] = PartForms[2].name

\* C20: when no part after the first qualifies, a description of two parts
\* or more gives its second part, cleaned the same way; a description of one
\* part gives the first COUNTERPART_MAX characters of the cleaned
\* description, and the marker exactly when the cleaned description is empty.
C20_Fallbacks ==
    (Extracted /\ Qualifying(unit.src) = {}) =>
        /\ Len(KeptParts(unit.src)) > 1 =>
               unit.ret[1] = PartForms[KeptParts(unit.src)[2]].name
        /\ Len(KeptParts(unit.src)) = 1 =>
               /\ unit.ret[1] = Slice(PartForms[KeptParts(unit.src)[1]].clean,
                                       0, COUNTERPART_MAX)
               /\ Len(unit.ret[1]) <= COUNTERPART_MAX
        /\ Len(KeptParts(unit.src)) = 0 => unit.ret[1] = strNaoIdentificado
        /\ Len(unit.src) <= 1 =>
               (unit.ret[1] = strNaoIdentificado <=> Len(KeptParts(unit.src)) = 0)

\* a description of one part longer than COUNTERPART_MAX characters, digits
\* in it: the answer is cut and keeps the digits
C20_Witness ==
    /\ Extracted
    /\ unit.src = <<7>>
    /\ Len(unit.arg) > COUNTERPART_MAX
    /\ Len(unit.ret[1]) = COUNTERPART_MAX
    /\ \E k \in 1..Len(unit.ret[1]) : IsDigit(unit.ret[1][k])

\* ---- the byte sniffing of detectFormat ----

\* neither the extension nor the declared content type decided
Sniffed ==
    /\ unit.fn = "detectFormat"
    /\ unit.ret # <<>>
    /\ FileNames[unit.src[1]].ext = "none"
    /\ ContentTypes[unit.src[2]].says = "none"

\* C17: when neither the extension nor the content type decides, the answer
\* depends on the first SNIFF_BYTES bytes only: ofx when they start, leading
\* white space and letter case apart, with OFXHEADER; otherwise csv when a
\* comma and the word data are among them; otherwise no format. What comes
\* after those bytes changes nothing.
C17_FirstBytesOnly ==
    Sniffed =>
        /\ unit.ret[1] = (IF LeadingBytes[unit.src[3]].looks = "none" THEN "null"
                          ELSE LeadingBytes[unit.src[3]].looks)
        /\ unit.ret[1] = detectFormat(unit.arg.file,
                                      Slice(unit.arg.buffer, 0, SNIFF_BYTES))

\* e.docx without content type whose bytes are 30 blanks and then OFXHEADER:
\* the header is cut after two letters and no format is found
C17_Witness ==
    /\ Sniffed
    /\ unit.src = <<8, 1, 8>>
    /\ Len(unit.arg.buffer) > SNIFF_BYTES
    /\ unit.ret = <<"null">>

\* ---- the line a CSV row came from ----

\* the 1-based line of the uploaded file that holds data row k, by the
\* layout the file was written in
SourceLine(layout, k) ==
    CASE layout = 1 -> 1 + k          \* header, then one row per line
      [] layout = 2 -> 1 + k          \* the same with CR LF between lines
      [] layout = 3 -> 2 + 3 * k      \* a blank line, the header, two blank lines before each row
      [] layout = 4 -> 1 + 2 * k      \* the header, one blank line before each row

\* C18 (as the specification states it): raw.originalLineNumber of every
\* transaction of a parsed CSV file is the 1-based line of the file the row
\* stands on, blank lines before or between the rows included.
C18_Original ==
    \A i \in Slots :
        (CsvParsed(i) /\ req[i].parsed # <<>>) =>
            \A k \in 1..Len(Parsed(i).transactions) :
                Parsed(i).transactions[k].raw.originalLineNumber
                    = SourceLine(FileOf(i).src.layout, k)

\* ---- the characters of a counterpart ----

\* C21 (as the specification states it): whatever branch of
\* extractCounterpart gives the answer, the answer holds letters, white
\* space, apostrophes, dots and hyphens only.
C21_Original ==
    Extracted =>
        \A k \in 1..Len(unit.ret[1]) :
            \/ IsLetter(unit.ret[1][k])
            \/ IsSpace(unit.ret[1][k])
            \/ unit.ret[1][k] \in {APOSTROPHE, DOT, MINUS}

\* ---- the transaction of an OFX block ----

\* parseOfx returned the extract of a generated document
OfxRead == unit.fn = "parseOfx" /\ unit.ret # <<>> /\ unit.ret[1].ok

\* C22: the date of an OFX transaction is made of the digits of DTPOSTED:
\* with eight digits or more, the first eight as YYYY-MM-DD, what follows
\* them ignored; with fewer, or without the tag, the empty string.
C22_DateFromDigits ==
    OfxRead =>
        /\ Len(unit.ret[1].value.transactions) = 1
        /\ unit.ret[1].value.transactions[1].date = DateForms[unit.src[1]].iso
        /\ unit.ret[1].value.transactions[1].raw.posted = DateForms[unit.src[1]].text

\* a DTPOSTED with time and time zone gave the date of its first 8 digits
C22_Witness ==
    /\ OfxRead
    /\ unit.src[1] = 2
    /\ unit.ret[1].value.transactions[1].date
           = S(<<"2", "0", "2", "4", "-", "0", "1", "-", "1", "5">>)

\* C23: a block without TRNAMT, MEMO or FITID still gives one transaction:
\* the amount is read from "0" (0, RECEITA), the description and the
\* reference are empty.
C23_Defaults ==
    OfxRead =>
        /\ Len(unit.ret[1].value.transactions) = 1
        /\ ~AmountForms[unit.src[2]].present =>
               /\ unit.ret[1].value.transactions[1].raw.amountRaw = strZero
               /\ unit.ret[1].value.transactions[1].amount = Canon(FALSE, 0, 0)
               /\ unit.ret[1].value.transactions[1].movement = "RECEITA"
        /\ ~MemoForms[unit.src[3]].present =>
               unit.ret[1].value.transactions[1].description = <<>>
        /\ ~FitidForms[unit.src[4]].present =>
               unit.ret[1].value.transactions[1].reference = Some(<<>>)

\* a block with no tag at all was parsed into one transaction
C23_Witness ==
    /\ OfxRead
    /\ unit.src[1] = 1 /\ unit.src[2] = 1 /\ unit.src[3] = 1 /\ unit.src[4] = 1
    /\ Len(unit.ret[1].value.transactions) = 1
    /\ unit.ret[1].value.transactions[1].amount = Canon(FALSE, 0, 0)

\* C24: the value of a tag is the text after it up to the next "<", trimmed,
\* whether the tag is closed or not and in whatever letter case its name is
\* written; a document parses to the same extract in every style.
C24_CaseAndClosing ==
    (unit.fn = "parseOfx" /\ unit.ret # <<>>) =>
        /\ unit.ret[1] = parseOfx(OfxDocument(unit.src, 1), nameOfx)
        /\ unit.ret[1].ok
        /\ DateForms[unit.src[1]].present =>
               unit.ret[1].value.transactions[1].raw.posted = DateForms[unit.src[1]].text
        /\ AmountForms[unit.src[2]].present =>
               unit.ret[1].value.transactions[1].raw.amountRaw = AmountForms[unit.src[2]].text
        /\ MemoForms[unit.src[3]].present =>
               unit.ret[1].value.transactions[1].raw.memo = MemoForms[unit.src[3]].text
        /\ FitidForms[unit.src[4]].present =>
               unit.ret[1].value.transactions[1].raw.fitid = FitidForms[unit.src[4]].text

\* a document of capitalised, unclosed tags, one value per line
C24_Witness ==
    /\ OfxRead
    /\ unit.src = <<2, 2, 2, 2, 3>>
    /\ unit.arg # OfxDocument(unit.src, 1)
    /\ unit.ret[1].value.transactions[1].raw.fitid = S(<<"F", "2">>)

\* ---- who may read and change a ledger ----

Handled == web.pc = "done" /\ web.request # Null

\* the session lib/session reads from the cookie of the handled request
SessionOfRequest == decodeSessionToken(web.request[1].cookie)

\* the rows that the handled request added, changed or removed
Touched == (db.entries \ web.before[1].entries) \cup (web.before[1].entries \ db.entries)

\* C25 (as the specification states it): a request with the session of a
\* user of company c that is not an administrator reads and changes cash
\* entries of company c only.
C25_Original ==
    (Handled /\ SessionOfRequest # Null /\ ~SessionOfRequest[1].admin) =>
        /\ \A e \in Touched : Some(e.companyId) = SessionOfRequest[1].companyId
        /\ (/\ web.response # Null
            /\ RouteOf(web.request[1].pathname) = "cash-entries"
            /\ web.request[1].method = "GET"
            /\ web.response[1].status = 200)
               => \A k \in 1..Len(web.response[1].body) :
                      Some(web.response[1].body[k].companyId) = SessionOfRequest[1].companyId

\* C26 (as the specification states it): a request without a valid session
\* cookie leaves the database as it was.
C26_Original ==
    (Handled /\ SessionOfRequest = Null) => db = web.before[1]

\* C27 (as the specification states it): the middleware sends a request
\* without valid session away from /admin, /dashboard, /api/clients and
\* /api/importar-extrato; a user away from /admin; an administrator away from
\* /dashboard; and a cookie that is malformed, wrongly signed or expired
\* counts as no cookie and never makes it fail.
C27_Original ==
    (web.request # Null) =>
        /\ web.verdict[1].kind # "throw"
        /\ SessionOfRequest = Null =>
               /\ web.verdict[1] = middleware([web.request[1] EXCEPT !.cookie = NoToken])
               /\ (\E prefix \in {pathAdmin, pathDashboard, pathApiClients, pathApiImportar} :
                       startsWith(web.request[1].pathname, prefix))
                      => web.verdict[1] = Redirect(pathRoot)
        /\ (SessionOfRequest # Null /\ startsWith(web.request[1].pathname, pathAdmin))
               => (SessionOfRequest[1].admin \/ web.verdict[1] = Redirect(pathDashboard))
        /\ (SessionOfRequest # Null /\ startsWith(web.request[1].pathname, pathDashboard))
               => (~SessionOfRequest[1].admin \/ web.verdict[1] = Redirect(pathAdmin))

\* ---- prismaWithRetry ----

Settled(i) == calls[i].pc = "done"

\* the operations a call has invoked so far, settled ones and the one in flight
Invocations(i) ==
    Len(SelectSeq(calls[i].trail, LAMBDA e : e.what = "operation"))
        + (IF calls[i].pc \in {"first", "second", "third"} THEN 1 ELSE 0)

\* what a call did is one of: the operation once, with a result or an error
\* that is not the cached plan error; then DISCARD ALL on the same client;
\* then, after a discard that worked, the operation on the same client; then,
\* after a failed discard or second attempt, the reset and the operation on
\* the new client
WellFormed(i) ==
    LET t == calls[i].trail
        c == calls[i].client
    IN  /\ Len(t) <= 5
        /\ Len(t) >= 1 => t[1].what = "operation" /\ t[1].client = c
        /\ Len(t) >= 2 =>
               /\ t[1].outcome = "cached plan"
               /\ t[2].what = "discard" /\ t[2].client = c
        /\ Len(t) >= 3 =>
               IF t[2].outcome = "result"
               THEN t[3].what = "operation" /\ t[3].client = c
               ELSE t[3].what = "reset" /\ Len(t) <= 4
        /\ Len(t) >= 4 =>
               IF t[3].what = "reset"
               THEN t[4] = Ran(t[3].outcome, t[4].outcome) /\ t[3].outcome \notin {0, c}
               ELSE t[3].outcome # "result" /\ t[4].what = "reset"
        /\ Len(t) = 5 => t[5] = Ran(t[4].outcome, t[5].outcome) /\ t[4].outcome \notin {0, c}

\* what a settled call hands to its caller is what its last step gave
Propagated(i) ==
    LET t == calls[i].trail
    IN  Settled(i) =>
            /\ Len(t) >= 1
            /\ t[1].outcome # "cached plan" => Len(t) = 1
            /\ \/ /\ t[Len(t)].what = "operation"
                  /\ calls[i].settled = Some(t[Len(t)].outcome)
                  /\ \/ Len(t) = 1
                     \/ t[Len(t)].outcome = "result"
                     \/ t[Len(t)].client = calls[i].refreshed
               \/ /\ t[Len(t)] = Reset(calls[i].target, 0)      \* $disconnect() failed
                  /\ calls[i].settled = Some("error")

RetrySafe == \A i \in Callers : Invocations(i) <= 3 /\ WellFormed(i) /\ Propagated(i)

\* C28: every call of prismaWithRetry settles, and has then invoked the
\* operation at most three times: once when the first attempt gives a result
\* or an error that is not the cached plan error, which is handed on; after
\* the cached plan error DISCARD ALL and a second attempt on the same client;
\* and only after a failed discard or second attempt the reset and a third
\* attempt on the new client, whose result or error is handed on.
C28_AtMostThree == [](RetrySafe) /\ <>(\A i \in Callers : Settled(i))

\* a call that went through all three attempts and handed on the result of
\* the third
C28_Witness ==
    /\ Settled(1)
    /\ Invocations(1) = 3
    /\ Len(calls[1].trail) = 5
    /\ calls[1].trail[5].client # calls[1].client
    /\ calls[1].settled = Some("result")

---------------------------------------------------------------------------
(* C29 *)

\* call j has an operation or a DISCARD ALL in flight on client c
InFlightOn(j, c) ==
    \/ calls[j].pc \in {"first", "discard", "second"} /\ calls[j].client = c
    \/ calls[j].pc = "third" /\ calls[j].refreshed = c

\* the clients created so far that were never disconnected
LiveClients == {c \in DOMAIN pool.disconnects : pool.disconnects[c] = 0}

\* C29: with several prismaWithRetry calls in flight on the shared client,
\* the recovery of one call never disconnects a client on which another call
\* has an operation in flight, no client is disconnected twice, and once
\* every call has settled no client but the current one is left connected
\* (no created client is leaked).
\* call i calls $disconnect() in this step
StartsDisconnect(i) == calls[i].pc # "disconnecting" /\ calls'[i].pc = "disconnecting"

NoVictim ==
    \A i, j \in Slots :
        (i # j /\ StartsDisconnect(i)) => ~InFlightOn(j, calls'[i].target)

DisconnectedOnce == \A c \in DOMAIN pool.disconnects : pool.disconnects[c] <= 1

\* (a client whose $disconnect() was rejected stays the current one)
NoLeak == (\A i \in Slots : Settled(i)) => LiveClients \subseteq {pool.prisma}

C29_Original == [][NoVictim]_vars /\ [](DisconnectedOnce /\ NoLeak)

---------------------------------------------------------------------------
(* C30 *)

\* run i of resetPasswordAction changed a password with the token
ChangedWith(i, token) ==
    /\ resets.frame[i].action = "reset"
    /\ resets.frame[i].pc = "done"
    /\ resets.frame[i].outcome = Some("redirect /?senhaAtualizada=1")
    /\ resets.frame[i].form[1].token = token

\* C30: a password-reset token authorises at most one password change, also
\* when resetPasswordAction runs concurrently with the same token: no two
\* runs both end having stored a password for the same token.
C30_Original ==
    \A i, j \in Slots :
        \A form \in ResetForms :
            (ChangedWith(i, form.token) /\ ChangedWith(j, form.token)) => i = j

====
